---- MODULE Spec2Model ----
(***************************************************************************)
(* gitpm (src/gitpm.py): a package manager that installs, updates and      *)
(* removes applications cloned from git repositories.  The model keeps the *)
(* registry (in memory per process and persisted), the install root, the   *)
(* host commands and the remote repositories, and has one action per       *)
(* command of GitPackageManager, each computed by an operator that follows *)
(* the method of the same name.                                            *)
(***************************************************************************)
EXTENDS Integers, Sequences, FiniteSets, TLC

VARIABLES
    catalog,    \* the parsed repos*.conf entries (load_config), fixed per run
    system,     \* self.system: TRUE for --system scope
    host,       \* commands present on the host (check_system_package)
    head,       \* commit at the tip of each remote repository
    dirs,       \* the install root: install name -> working tree or NoDir
    disk,       \* the content of installed.json
    installed,  \* self.installed of each process, or NotRunning
    last        \* what the last command did (its arguments, result, events)

vars == <<catalog, system, host, head, dirs, disk, installed, last>>

----------------------------------------------------------------------------
(* Bounds of the model. *)

MaxFaults == 1      \* external failures that may hit one command
MaxCommit == 1      \* commits pushed to a remote repository

Procs == {"p1", "p2"}
Main == "p1"        \* the process of the single-process specification

----------------------------------------------------------------------------
(* Values.  None is the empty string for names, branches and messages and  *)
(* the empty tuple for paths.                                               *)

None == ""
NoPath == <<>>
PyNone == [type |-> "none"]
PyStr(s) == [type |-> "str", s |-> s]
NotRunning == [running |-> FALSE, reg |-> <<>>]
Distro == "Arch"

Url(owner, repo) ==
    [scheme |-> "https", host |-> "example.com", path |-> <<owner, repo>>, git |-> TRUE]

\* str.lower() on the names of the model
Lower(s) ==
    CASE s = "Lib" -> "lib"
      [] s = "TOOL" -> "tool"
      [] s = "Tool" -> "tool"
      [] OTHER -> s

\* one line of repos.conf after load_config: url, branch, name
Entry(url, branch, name) == [url |-> url, branch |-> branch, name |-> name]

----------------------------------------------------------------------------
(* parse_repo_url: (full_url, user, repo_name) of a URL.  A URL is kept as *)
(* its scheme, host, path segments and whether it ends in ".git".          *)

\* The scheme is "http" or "https" for scheme://host/path, "" for a string
\* that is a path only, and user@ for the SSH form user@host:path.

\* urlparse raises ValueError for a network location with an unmatched bracket
BadNetloc(netloc) == netloc = "["
\* str.startswith('http') for the path-only strings of the model
StartsWithHttp(url) ==
    /\ url.scheme = "" /\ Len(url.path) > 0
    /\ url.path[1] \in {"http", "httpie"}
\* url.split('/'): the first part, and the number of parts
FirstPart(url) ==
    IF url.scheme = "" THEN url.path[1] ELSE url.scheme \o url.host \o ":" \o url.path[1]
\* url.split('/')[-1] of the fallback
LastPart(url) ==
    IF Len(url.path) >= 2 THEN url.path[Len(url.path)]
    ELSE IF url.scheme \in {"http", "https"}
         THEN (IF Len(url.path) = 1 THEN url.path[1] ELSE url.host)
    ELSE IF url.scheme = "" THEN (IF Len(url.path) = 1 THEN url.path[1] ELSE None)
    ELSE IF Len(url.path) = 1 THEN FirstPart(url) ELSE url.scheme \o url.host
\* the exception that leaves parse_repo_url
Raised(e) == << [raised |-> e] >>
\* the fallback: the URL as given without its .git, 'unknown', the last part
Fallback(url) == << url, "unknown", LastPart(url) >>

parse_repo_url(url0) ==
    LET url == [url0 EXCEPT !.git = FALSE]
    IN  IF url.scheme \in {"http", "https"}
        THEN IF BadNetloc(url.host) THEN Raised("ValueError")
             ELSE IF Len(url.path) >= 2
             THEN << [scheme |-> url.scheme, host |-> url.host,
                      path |-> <<url.path[1], url.path[2]>>, git |-> TRUE],
                     url.path[1], url.path[2] >>
             ELSE Fallback(url)
        ELSE IF url.scheme = "git@"
        THEN IF Len(url.path) >= 2
             THEN << [scheme |-> "git@", host |-> url.host,
                      path |-> <<url.path[1], url.path[2]>>, git |-> TRUE],
                     url.path[1], url.path[2] >>
             ELSE Fallback(url)
        ELSE IF Len(url.path) = 2 /\ ~StartsWithHttp(url)
        THEN << [scheme |-> "https", host |-> "github.com",
                 path |-> <<FirstPart(url), url.path[2]>>, git |-> TRUE],
                FirstPart(url), url.path[2] >>
        ELSE Fallback(url)

\* "url,branch,name" split on commas and stripped, as a dependency descriptor
Dep(url, branch, name) == <<url, branch, name>>

----------------------------------------------------------------------------
(* The remote repositories: the tree a clone of each one materialises.     *)

Absent == [kind |-> "absent", json |-> <<>>]
Invalid == [kind |-> "invalid", json |-> <<>>]
Valid(j) == [kind |-> "valid", json |-> j]

NoSystem == [method |-> None, distro_method |-> None, check_commands |-> <<>>, pkgs |-> <<>>]
Manifest(keys, so, dkeys, sys, gitpm) ==
    [type |-> "object", keys |-> keys, system_only |-> so, dkeys |-> dkeys,
     system |-> sys, gitpm |-> gitpm]

One(d) == [list |-> FALSE, v |-> <<d>>]
Alts(ds) == [list |-> TRUE, v |-> ds]

Tree(marker, m1, m2, hooks) ==
    [marker |-> marker, gitpm_json |-> m1, dot_gitpm_json |-> m2, hooks |-> hooks]

Trees ==
    [ tool |-> Tree(TRUE, Absent, Absent, {<<"setup", ".sh">>, <<"update", ".py">>,
                                           <<"uninstall", ".py">>}),
      lib  |-> Tree(TRUE, Absent, Absent, {}),
      bad  |-> Tree(FALSE, Invalid, Absent, {}),
      sys  |-> Tree(FALSE, Valid(Manifest({"system_only"}, TRUE, {}, NoSystem, <<>>)),
                    Absent, {}),
      sysd |-> Tree(FALSE, Valid(Manifest({"system_only", "dependencies"}, TRUE, {},
                                          NoSystem, <<>>)), Absent, {}),
      app  |-> Tree(FALSE,
                    Valid(Manifest({"dependencies"}, FALSE, {"system", "gitpm"},
                        [method |-> "inst", distro_method |-> None,
                         check_commands |-> << One("cmd") >>,
                         pkgs |-> << <<"cmd", One("pkg")>> >>],
                        << One(Dep(Url("acme", "lib"), None, "lib")) >>)),
                    Absent, {}),
      app2 |-> Tree(FALSE,
                    Valid(Manifest({"dependencies"}, FALSE, {"gitpm"}, NoSystem,
                        << Alts(<< Dep(Url("acme", "lib"), None, "lib"),
                                   Dep(Url("acme", "sys"), None, None) >>) >>)),
                    Absent, {}),
      app3 |-> Tree(TRUE,
                    Absent,
                    Valid(Manifest({"dependencies"}, FALSE, {"gitpm"}, NoSystem,
                        << One(Dep(Url("acme", "bad"), None, None)) >>)),
                    {}),
      ping |-> Tree(FALSE,
                    Valid(Manifest({"dependencies"}, FALSE, {"gitpm"}, NoSystem,
                        << One(Dep(Url("acme", "pong"), None, None)) >>)),
                    Absent, {}),
      pong |-> Tree(FALSE,
                    Valid(Manifest({"dependencies"}, FALSE, {"gitpm"}, NoSystem,
                        << One(Dep(Url("acme", "ping"), None, None)) >>)),
                    Absent, {}),
      mon  |-> Tree(TRUE, Absent, Absent, {<<"check", ".sh">>}) ]

\* the hook files a repository gains with its first commit after commit 0
Added ==
    [r \in DOMAIN Trees |->
        IF r = "mon" THEN {<<"setup", "-user", ".py">>, <<"setup", ".sh">>,
                           <<"remove", ".sh">>, <<"update", ".py">>}
        ELSE {}]
\* the hook files of repository r at commit c
HooksAt(r, c) == Trees[r].hooks \cup (IF c > 0 THEN Added[r] ELSE {})

Repos == DOMAIN Trees

\* the repository a URL names, or None when no such repository exists
RepoOf(url) ==
    LET r == parse_repo_url(url)[3] IN IF r \in Repos THEN r ELSE None

----------------------------------------------------------------------------
(* The install root.  A working tree is the repository it was cloned from, *)
(* its checked-out commit, whether it has local modifications, and the     *)
(* hook files whose executable bit is set.                                 *)

NoDir == [present |-> FALSE, repo |-> None, commit |-> 0, dirty |-> FALSE, x |-> {}]
CloneOf(r, c) == [present |-> TRUE, repo |-> r, commit |-> c, dirty |-> FALSE, x |-> {}]

DirNames == {"tool", "bad", "sys", "sysd", "app", "app2", "app3", "lib", "Lib",
             "ping", "pong", "mon"}

\* find_repos_by_name: the catalog entries whose display name matches
RECURSIVE find_repos_by_name_from(_, _, _)
find_repos_by_name_from(repos, i, name) ==
    IF i > Len(repos) THEN <<>>
    ELSE LET repo_entry == repos[i]
             p == parse_repo_url(repo_entry.url)
             display_name == IF repo_entry.name # None THEN repo_entry.name ELSE p[3]
             rest == find_repos_by_name_from(repos, i + 1, name)
         IN  IF Lower(display_name) = Lower(name)
             THEN << [url |-> repo_entry.url, user |-> p[2], name |-> display_name,
                      repo_name |-> p[3], branch |-> repo_entry.branch] >> \o rest
             ELSE rest

find_repos_by_name(repos, name) == find_repos_by_name_from(repos, 1, name)

\* prompt_selection: the selected option as a sequence of at most one element.
\* ans is what the user types: 0 cancels, a number out of range is asked again
\* and then cancelled.
prompt_selection(options, ans) ==
    IF Len(options) = 0 THEN <<>>
    ELSE IF Len(options) = 1 THEN << options[1] >>
    ELSE IF ans \in 1..Len(options) THEN << options[ans] >>
    ELSE <<>>

\* load_gitpm_json that takes a file it cannot parse for a missing one
load_gitpm_json_lenient(d) ==
    IF ~d.present THEN << PyNone, PyNone >>
    ELSE LET t == Trees[d.repo]
         IN  IF t.gitpm_json.kind = "valid" THEN << t.gitpm_json.json, PyNone >>
             ELSE IF t.dot_gitpm_json.kind = "valid" THEN << t.dot_gitpm_json.json, PyNone >>
             ELSE << PyNone, PyNone >>

\* the other things a marker path can be: a directory, a file that cannot be
\* read, a file that holds the JSON value null
Directory == [kind |-> "dir", json |-> <<>>]
Unreadable == [kind |-> "unreadable", json |-> <<>>]
Null == [kind |-> "null", json |-> <<>>]

\* a body of the loop of load_gitpm_json that falls to the next marker file
\* when the file cannot be parsed
load_json_path_falling(file, marker_file, next) ==
    IF file.kind = "valid" THEN << file.json, PyNone >>
    ELSE IF file.kind = "null" THEN << PyNone, PyNone >>
    ELSE next

\* one turn of the loop of load_gitpm_json: json_path.exists() and
\* json_path.is_file(), then json.load in the try; next is what the later
\* turns give.  json.load of a file that holds null returns None.
load_json_path(file, marker_file, next) ==
    IF file.kind \in {"absent", "dir"} THEN next
    ELSE IF file.kind = "valid" THEN << file.json, PyNone >>
    ELSE IF file.kind = "null" THEN << PyNone, PyNone >>
    ELSE IF file.kind = "invalid" THEN << PyNone, PyStr("Invalid JSON in " \o marker_file) >>
    ELSE << PyNone, PyStr("Error reading " \o marker_file) >>

\* the loop of load_gitpm_json over marker_files = ['gitpm.json', '.gitpm.json']
load_marker_files(gitpm_json, dot_gitpm_json) ==
    load_json_path(gitpm_json, "gitpm.json",
                   load_json_path(dot_gitpm_json, ".gitpm.json", << PyNone, PyNone >>))

\* load_gitpm_json: the pair (json_data, error_message)
load_gitpm_json(d) ==
    IF ~d.present THEN << PyNone, PyNone >>
    ELSE load_marker_files(Trees[d.repo].gitpm_json, Trees[d.repo].dot_gitpm_json)

\* the truth value Python gives a loaded manifest: a non-empty object
Truthy(v) == v.type = "object" /\ v.keys # {}
\* x in t for a tuple t: some element equals the string x
PyIn(x, t) == \E i \in 1..Len(t) : t[i].type = "str" /\ t[i].s = x
\* gitpm_json.get('system_only', False)
SystemOnly(v) == Truthy(v) /\ "system_only" \in v.keys /\ v.system_only

----------------------------------------------------------------------------
(* Hook discovery. *)

ScriptKinds == {"setup", "remove", "update", "check"}

\* script_names with the generic names before the scope-specific ones
script_names_generic_first(kind, prefix) ==
    LET a == IF kind = "setup" THEN "setup" ELSE IF kind = "remove" THEN "remove"
             ELSE IF kind = "update" THEN "update" ELSE "check"
        b == IF kind = "setup" THEN "install" ELSE IF kind = "remove" THEN "uninstall"
             ELSE IF kind = "update" THEN "upgrade" ELSE "check-updates"
    IN  << <<a, ".sh">>, <<b, ".sh">>, <<a, ".py">>, <<b, ".py">>,
           <<a, prefix, ".sh">>, <<b, prefix, ".sh">>, <<a, prefix, ".py">>, <<b, prefix, ".py">> >>

\* script_names of check_scripts for the scope prefix
script_names(kind, prefix) ==
    LET a == IF kind = "setup" THEN "setup" ELSE IF kind = "remove" THEN "remove"
             ELSE IF kind = "update" THEN "update" ELSE "check"
        b == IF kind = "setup" THEN "install" ELSE IF kind = "remove" THEN "uninstall"
             ELSE IF kind = "update" THEN "upgrade" ELSE "check-updates"
    IN  << <<a, prefix, ".sh">>, <<b, prefix, ".sh">>, <<a, prefix, ".py">>, <<b, prefix, ".py">>,
           <<a, ".sh">>, <<b, ".sh">>, <<a, ".py">>, <<b, ".py">> >>

Suffix(f) == f[Len(f)]

\* the loop of check_scripts over the names of one kind, in a directory that
\* holds the files `files`, of which x are executable and locked are files
\* whose mode os.chmod cannot change: the script found, and seen, the files
\* chmod 755 was applied to
RECURSIVE scan_names(_, _, _, _, _, _)
scan_names(files, x, locked, names, i, seen) ==
    IF i > Len(names) THEN [found |-> NoPath, seen |-> seen]
    ELSE IF names[i] \in files
         THEN LET seen1 == IF Suffix(names[i]) = ".sh" /\ names[i] \notin locked
                           THEN seen \cup {names[i]} ELSE seen
              IN  IF Suffix(names[i]) = ".py" \/ names[i] \in x \cup seen1
                  THEN [found |-> names[i], seen |-> seen1]
                  ELSE scan_names(files, x, locked, names, i + 1, seen1)
         ELSE scan_names(files, x, locked, names, i + 1, seen)

\* the loop in a working tree: the hooks of the commit checked out, the
\* chmod calls succeed
scan_scripts(d, names, i, seen) ==
    scan_names(HooksAt(d.repo, d.commit), d.x, {}, names, i, seen)

\* the dictionary check_scripts returns in a directory that holds the files
\* `files`, of which x are executable and locked cannot be chmod-ed
check_scripts_in(files, x, locked, sys) ==
    [k \in ScriptKinds |->
        scan_names(files, x, locked, script_names(k, IF sys THEN "-system" ELSE "-user"),
                   1, {}).found]

\* check_scripts: the script found for each kind (NoPath when none) and the
\* working tree after the chmod calls
check_scripts(d, sys) ==
    LET prefix == IF sys THEN "-system" ELSE "-user"
        r == [k \in ScriptKinds |->
                IF d.present THEN scan_scripts(d, script_names(k, prefix), 1, {})
                ELSE [found |-> NoPath, seen |-> {}]]
    IN  [scripts |-> [k \in ScriptKinds |-> r[k].found],
         dir |-> [d EXCEPT !.x = d.x \cup UNION {r[k].seen : k \in ScriptKinds}]]

\* str(script) if script else None, for a script of the package directory n
ScriptPath(n, f) == IF f = NoPath THEN NoPath ELSE <<n>> \o f

----------------------------------------------------------------------------
(* The persisted registry. *)

EmptyReg == [n \in {} |-> NoPath]
NoFile == [kind |-> "missing", reg |-> EmptyReg]
JsonFile(reg) == [kind |-> "json", reg |-> reg]
\* a file that json.load rejects: empty after open(..., 'w'), or cut short
Truncated == [kind |-> "empty", reg |-> EmptyReg]
Partial == [kind |-> "partial", reg |-> EmptyReg]

\* load_installed
load_installed(file) == IF file.kind = "json" THEN file.reg ELSE EmptyReg

Put(reg, n, rec) == [m \in DOMAIN reg \cup {n} |-> IF m = n THEN rec ELSE reg[m]]
Del(reg, n) == [m \in DOMAIN reg \ {n} |-> reg[m]]

\* save_installed that writes its entries over those of the file
save_installed_merged(st, faults) ==
    [st EXCEPT !.disk = JsonFile([n \in DOMAIN load_installed(st.disk) \cup DOMAIN st.inst |->
                                    IF n \in DOMAIN st.inst THEN st.inst[n]
                                    ELSE load_installed(st.disk)[n]]),
               !.log = Append(st.log, "save_installed")]

\* save_installed; a process that dies in it leaves st.dead set and the file
\* in one of the states of CrashFiles
save_installed(st, faults) ==
    IF "crash" \in faults
    THEN [st EXCEPT !.dead = TRUE, !.saving = [pre |-> st.disk, post |-> st.inst],
                    !.log = Append(st.log, "save_installed")]
    ELSE [st EXCEPT !.disk = JsonFile(st.inst), !.log = Append(st.log, "save_installed")]

CrashFiles(saving) == {Truncated, Partial, JsonFile(saving.post)}

----------------------------------------------------------------------------
(* Dependency resolution. *)

\* check_system_package
check_system_package(h, package) == package \in h

\* check_package_alternatives
check_package_alternatives(h, alternatives) ==
    \E i \in 1..Len(alternatives) : check_system_package(h, alternatives[i])

\* a look-up that takes the last package of a list
PackageOf_last(pkgs, command) ==
    IF \E i \in 1..Len(pkgs) : pkgs[i][1] = command
    THEN LET v == pkgs[CHOOSE i \in 1..Len(pkgs) : pkgs[i][1] = command][2].v IN v[Len(v)]
    ELSE command

\* distro_packages[command] when the command is mapped, else the command
PackageOf(pkgs, command) ==
    IF \E i \in 1..Len(pkgs) : pkgs[i][1] = command
    THEN pkgs[CHOOSE i \in 1..Len(pkgs) : pkgs[i][1] = command][2].v[1]
    ELSE command

RECURSIVE missing_commands(_, _, _, _)
missing_commands(h, check_commands, pkgs, i) ==
    IF i > Len(check_commands) THEN <<>>
    ELSE LET command_entry == check_commands[i]
             rest == missing_commands(h, check_commands, pkgs, i + 1)
         IN  IF check_package_alternatives(h, command_entry.v) THEN rest
             ELSE << PackageOf(pkgs, command_entry.v[1]) >> \o rest

RECURSIVE missing_packages(_, _, _)
missing_packages(h, pkgs, i) ==
    IF i > Len(pkgs) THEN <<>>
    ELSE LET rest == missing_packages(h, pkgs, i + 1)
         IN  IF ~pkgs[i][2].list /\ ~check_system_package(h, pkgs[i][2].v[1])
             THEN << pkgs[i][2].v[1] >> \o rest
             ELSE rest

\* check_system_dependencies: (all_satisfied, missing_packages, install_method)
check_system_dependencies(h, dependencies) ==
    LET install_method == IF dependencies.method # None THEN dependencies.method
                          ELSE dependencies.distro_method
        missing == IF Len(dependencies.check_commands) > 0
                   THEN missing_commands(h, dependencies.check_commands, dependencies.pkgs, 1)
                   ELSE missing_packages(h, dependencies.pkgs, 1)
    IN  << Len(missing) = 0, missing, install_method >>

\* the name, url and branch a dependency descriptor "url,branch,name" stands for
DescriptorName(parts) ==
    IF Len(parts) > 2 /\ parts[3] # None THEN parts[3] ELSE parse_repo_url(parts[1])[3]
DescriptorBranch(parts) == IF Len(parts) > 1 THEN parts[2] ELSE None

\* the last alternative of a group that is installed, 0 when none is
LastInstalled(reg, alts) ==
    IF \E i \in 1..Len(alts) : DescriptorName(alts[i]) \in DOMAIN reg
    THEN CHOOSE i \in 1..Len(alts) :
            /\ DescriptorName(alts[i]) \in DOMAIN reg
            /\ \A j \in (i + 1)..Len(alts) : DescriptorName(alts[j]) \notin DOMAIN reg
    ELSE 0

\* the first alternative of a group that is installed, 0 when none is
FirstInstalled(reg, alts) ==
    IF \E i \in 1..Len(alts) : DescriptorName(alts[i]) \in DOMAIN reg
    THEN CHOOSE i \in 1..Len(alts) :
            /\ DescriptorName(alts[i]) \in DOMAIN reg
            /\ \A j \in 1..(i - 1) : DescriptorName(alts[j]) \notin DOMAIN reg
    ELSE 0

\* check_gitpm_dependencies: (all_satisfied, missing, dep_info, system_only_deps)
RECURSIVE check_gitpm_dependencies_from(_, _, _, _, _)
check_gitpm_dependencies_from(reg, d, sys, gitpm_deps, i) ==
    IF i > Len(gitpm_deps) THEN [missing |-> <<>>, dep_info |-> <<>>, system_only_deps |-> <<>>]
    ELSE LET dep_entry == gitpm_deps[i]
             rest == check_gitpm_dependencies_from(reg, d, sys, gitpm_deps, i + 1)
             k == FirstInstalled(reg, dep_entry.v)
             primary == dep_entry.v[1]
             dep_name == DescriptorName(primary)
             info == [name |-> dep_name, url |-> primary[1],
                      branch |-> DescriptorBranch(primary),
                      alternatives |-> IF dep_entry.list THEN dep_entry.v ELSE <<>>]
         IN  IF k = 0
             THEN [rest EXCEPT !.missing = << dep_name >> \o @,
                               !.dep_info = << info >> \o @]
             ELSE LET found == DescriptorName(dep_entry.v[k])
                      dep_json == load_gitpm_json(d[reg[found].path])[1]
                  IN  IF ~sys /\ SystemOnly(dep_json)
                      THEN [rest EXCEPT !.system_only_deps = << found >> \o @]
                      ELSE rest

PeerReport(r) == << Len(r.missing) = 0, r.missing, r.dep_info, r.system_only_deps >>

check_gitpm_dependencies(reg, d, sys, gitpm_deps) ==
    PeerReport(check_gitpm_dependencies_from(reg, d, sys, gitpm_deps, 1))

Report(sat, ms, mg, can, info, err) ==
    [sat |-> sat, missing_system |-> ms, missing_gitpm |-> mg, can_install_system |-> can,
     gitpm_dep_info |-> info, json_error |-> err]

\* an end of check_dependencies that applies the scope checks in every scope
scope_checks_any_scope(sys, sudo, system_only, has_system, missing_system, peers) ==
    IF system_only
    THEN Report(FALSE, <<>>, <<>>, FALSE, <<>>, "requires system-wide installation")
    ELSE IF Len(peers[4]) > 0
    THEN Report(FALSE, <<>>, <<>>, FALSE, <<>>, "installed dependencies require system install")
    ELSE Report(Len(missing_system) = 0 /\ Len(peers[2]) = 0, missing_system, peers[2],
                has_system /\ Len(missing_system) > 0 /\ (sys \/ sudo), peers[3], None)

\* the end of check_dependencies: the scope checks on the package and on its
\* installed dependencies, then the result
scope_checks(sys, sudo, system_only, has_system, missing_system, peers) ==
    IF system_only /\ ~sys
    THEN Report(FALSE, <<>>, <<>>, FALSE, <<>>, "requires system-wide installation")
    ELSE IF Len(peers[4]) > 0 /\ ~sys
    THEN Report(FALSE, <<>>, <<>>, FALSE, <<>>, "installed dependencies require system install")
    ELSE Report(Len(missing_system) = 0 /\ Len(peers[2]) = 0, missing_system, peers[2],
                has_system /\ Len(missing_system) > 0 /\ (sys \/ sudo), peers[3], None)

\* check_dependencies once load_gitpm_json has returned (gitpm_json, json_error)
check_loaded(reg, d, h, sys, sudo, gitpm_json, json_error) ==
    IF json_error.type # "none"
    THEN Report(FALSE, <<>>, <<>>, FALSE, <<>>, json_error.s)
    ELSE IF ~Truthy(gitpm_json) THEN Report(TRUE, <<>>, <<>>, FALSE, <<>>, None)
    ELSE IF "dependencies" \notin gitpm_json.keys
    THEN Report(TRUE, <<>>, <<>>, FALSE, <<>>, None)
    ELSE scope_checks(sys, sudo, SystemOnly(gitpm_json), "system" \in gitpm_json.dkeys,
                      IF "system" \in gitpm_json.dkeys
                      THEN check_system_dependencies(h, gitpm_json.system)[2] ELSE <<>>,
                      IF "gitpm" \in gitpm_json.dkeys
                      THEN check_gitpm_dependencies(reg, d, sys, gitpm_json.gitpm)
                      ELSE << TRUE, <<>>, <<>>, <<>> >>)

\* check_dependencies on the working tree of repo_path: (all_satisfied,
\* missing_system, missing_gitpm, can_install_system, gitpm_dep_info, json_error)
check_dependencies(reg, d, h, sys, sudo, repo_path) ==
    check_loaded(reg, d, h, sys, sudo, load_gitpm_json(d[repo_path])[1],
                 load_gitpm_json(d[repo_path])[2])

----------------------------------------------------------------------------
(* The commands.  Each takes the state st a process sees (its registry     *)
(* inst, the registry file, the install root) and returns it as the        *)
(* command leaves it, with the result in ret and the calls it made in log. *)
(* faults names the external failures of this run: a repository name when  *)
(* that remote is unreachable, "rm" when rmtree fails, "hook" when a hook  *)
(* exits non-zero, "nosudo" when sudo -n is refused, "crash" when the       *)
(* process dies in save_installed.                                          *)

NoReport == Report(TRUE, <<>>, <<>>, FALSE, <<>>, None)

St(reg, file, d) ==
    [inst |-> reg, disk |-> file, dirs |-> d, ret |-> FALSE, log |-> <<>>,
     dead |-> FALSE, raised |-> FALSE, saving |-> [pre |-> file, post |-> reg],
     target |-> None, repo |-> None, cloned |-> FALSE, cleanup_failed |-> FALSE, registered |-> <<>>,
     first |-> NoReport, final |-> NoReport, checked |-> FALSE,
     depth |-> 0, deepest |-> 0, temps |-> 0, calls |-> <<>>]

\* a call of install begins and ends: depth counts the calls of install on
\* the stack, deepest the most there were
Enter(st) ==
    [st EXCEPT !.depth = @ + 1,
               !.deepest = IF st.depth + 1 > @ THEN st.depth + 1 ELSE @]
Leave(st) == [st EXCEPT !.depth = @ - 1]

Ret(st, b) == [st EXCEPT !.ret = b]
Log(st, e) == [st EXCEPT !.log = Append(@, e)]
Stopped(st) == st.dead \/ st.raised

\* shutil.rmtree(repo_path)
rmtree(st, n, faults) ==
    IF "rm" \in faults THEN Log(st, "rmtree_failed")
    ELSE [Log(st, "rmtree") EXCEPT !.dirs[n] = NoDir]

\* a failure path of install that returns without the clean-up
cleanup_forgotten(st, n, faults) == st

\* the clean-up of install: if cloned and repo_path.exists(): rmtree, with a
\* failure only reported
cleanup(st, n, faults) ==
    IF st.cloned /\ st.dirs[n].present
    THEN LET r == rmtree(st, n, faults)
         IN  [r EXCEPT !.cleanup_failed = r.dirs[n].present]
    ELSE st

\* run_script: TRUE when the script exits with 0
run_script(st, kind, faults) ==
    IF "hook" \in faults THEN Log(Log(st, kind), "script_failed") ELSE Log(st, kind)

\* remove that refuses a package whose directory is gone
remove_missing_refused(st, name, faults) == Ret(st, FALSE)

\* remove when repo_path does not exist: "Remove from registry anyway"
remove_missing(st, name, faults) ==
    Ret(save_installed([st EXCEPT !.inst = Del(@, name)], faults), TRUE)

\* remove that deletes the registry entry whether or not the directory went
remove_registry_anyway(st, name, repo_path, faults) ==
    Ret(save_installed([st EXCEPT !.inst = Del(@, name)], faults), TRUE)

\* remove after shutil.rmtree: a failure returns False, else the entry is
\* deleted and the registry saved
remove_registry(st, name, repo_path, faults) ==
    IF st.dirs[repo_path].present THEN Ret(st, FALSE)
    ELSE Ret(save_installed([st EXCEPT !.inst = Del(@, name)], faults), TRUE)

\* remove from "Run removal script if found and not skipping": the script
\* found now, or else the recorded one if it still exists
remove_script(st, repo_info, skip_uninstall, found, faults) ==
    IF skip_uninstall THEN st
    ELSE IF found.scripts["remove"] # NoPath
    THEN run_script([st EXCEPT !.dirs[repo_info.path] = found.dir], "run_remove_script", faults)
    ELSE IF /\ repo_info.remove_script # NoPath
            /\ st.dirs[repo_info.remove_script[1]].present
            /\ Tail(repo_info.remove_script)
                  \in HooksAt(st.dirs[repo_info.remove_script[1]].repo,
                              st.dirs[repo_info.remove_script[1]].commit)
    THEN run_script([st EXCEPT !.dirs[repo_info.path] = found.dir], "run_remove_script", faults)
    ELSE [st EXCEPT !.dirs[repo_info.path] = found.dir]

\* remove of the registered package name
remove_installed(st, name, repo_info, skip_uninstall, faults) ==
    IF ~st.dirs[repo_info.path].present THEN remove_missing(st, name, faults)
    ELSE remove_registry(
             rmtree(remove_script(st, repo_info, skip_uninstall,
                                  check_scripts(st.dirs[repo_info.path], system), faults),
                    repo_info.path, faults),
             name, repo_info.path, faults)

\* remove(name, skip_uninstall)
remove(st, name, skip_uninstall, faults) ==
    IF name \notin DOMAIN st.inst THEN Ret(st, FALSE)
    ELSE remove_installed(st, name, st.inst[name], skip_uninstall, faults)

\* git ls-remote reaches the repository of the URL
Reachable(url, faults) == RepoOf(url) # None /\ RepoOf(url) \notin faults
Branches(r) == {"main"}

\* verify_repo
verify_repo(url, branch, faults) ==
    /\ "slow_remote" \notin faults
    /\ Reachable(url, faults) /\ (branch = None \/ branch \in Branches(RepoOf(url)))

\* check_repo_compatibility: the shallow clone (tried again without the branch)
\* has one of .gitpm, gitpm.json, .gitpm.json
check_repo_compatibility(url, branch, faults) ==
    /\ Reachable(url, faults)
    /\ LET t == Trees[RepoOf(url)]
       IN  t.marker \/ t.gitpm_json.kind # "absent" \/ t.dot_gitpm_json.kind # "absent"

\* an InstalledRecord that forgets the branch the catalog declares
RecordWithoutBranch(sel, scripts) ==
    [url |-> sel.url, user |-> sel.user, name |-> sel.name, repo_name |-> sel.repo_name,
     branch |-> None, path |-> sel.name,
     setup_script |-> ScriptPath(sel.name, scripts["setup"]),
     remove_script |-> ScriptPath(sel.name, scripts["remove"]),
     update_script |-> ScriptPath(sel.name, scripts["update"]),
     check_script |-> ScriptPath(sel.name, scripts["check"])]

\* tempfile.mkdtemp: one more temporary directory exists
mkdtemp(st) == [Log(st, "mkdtemp") EXCEPT !.temps = @ + 1]

\* a clean-up that leaves the temporary directory where it is
rmtemp_forgotten(st, faults) == st

\* shutil.rmtree(temp_dir) with its failure ignored (except Exception: pass,
\* ignore_errors=True)
rmtemp(st, faults) ==
    IF "rmtmp" \in faults THEN Log(st, "rmtree_temp_failed")
    ELSE [st EXCEPT !.temps = @ - 1]

\* the temporary directory of check_repo_compatibility: made in the try
\* block, removed in its finally clause on every way out
compat_temp(st, faults) == rmtemp(mkdtemp(st), faults)

\* the temporary directory install makes to look into a compatible
\* dependency: removed in the finally clause on every way out
probe_temp(st, dep, faults) ==
    IF check_repo_compatibility(dep.url, dep.branch, faults)
    THEN rmtemp(mkdtemp(st), faults)
    ELSE st

\* the InstalledRecord install writes
Record(sel, scripts) ==
    [url |-> sel.url, user |-> sel.user, name |-> sel.name, repo_name |-> sel.repo_name,
     branch |-> sel.branch, path |-> sel.name,
     setup_script |-> ScriptPath(sel.name, scripts["setup"]),
     remove_script |-> ScriptPath(sel.name, scripts["remove"]),
     update_script |-> ScriptPath(sel.name, scripts["update"]),
     check_script |-> ScriptPath(sel.name, scripts["check"])]

\* the options install offers for a dependency with alternatives
RECURSIVE AlternativeOptions(_, _)
AlternativeOptions(alternatives, i) ==
    IF i > Len(alternatives) THEN <<>>
    ELSE LET parts == alternatives[i]
             p == parse_repo_url(parts[1])
         IN  << [name |-> DescriptorName(parts), user |-> p[2], url |-> p[1],
                 branch |-> DescriptorBranch(parts)] >>
             \o AlternativeOptions(alternatives, i + 1)

RECURSIVE install(_, _, _, _, _)
RECURSIVE install_gitpm_dependencies(_, _, _, _, _)

\* the end of dependency handling without its elif missing_system branch
unresolved_system_uninstallable(final) ==
    ~final.sat /\ Len(final.missing_system) > 0 /\ ~final.can_install_system

\* the end of dependency handling in install: if not deps_satisfied, a missing
\* system package is fatal whether or not it could have been installed
unresolved_system(final) == ~final.sat /\ Len(final.missing_system) > 0

\* an end of install that gives up when the setup hook fails
register_found_strict(st, sel, found, faults) ==
    IF found.scripts["setup"] # NoPath /\ "hook" \in faults
    THEN Ret(cleanup(run_script([st EXCEPT !.dirs[sel.name] = found.dir],
                                "run_setup_script", faults),
                     sel.name, faults), FALSE)
    ELSE Ret(save_installed(
                 [st EXCEPT !.dirs[sel.name] = found.dir,
                            !.inst = Put(@, sel.name, Record(sel, found.scripts)),
                            !.registered = Append(@, sel.name)],
                 faults), TRUE)

\* the end of install: the setup hook among the hooks found is run and the
\* package is registered and saved
register_found(st, sel, found, faults) ==
    Ret(save_installed(
            [(IF found.scripts["setup"] # NoPath
              THEN run_script([st EXCEPT !.dirs[sel.name] = found.dir], "run_setup_script", faults)
              ELSE [st EXCEPT !.dirs[sel.name] = found.dir])
             EXCEPT !.inst = Put(@, sel.name, Record(sel, found.scripts)),
                    !.registered = Append(@, sel.name)],
            faults), TRUE)

\* install from "Check for setup script" to the end
register(st, sel, faults) ==
    register_found(st, sel, check_scripts(st.dirs[sel.name], system), faults)

\* a check_dependencies that drops the records whose directory is gone
check_pruning(st, n, sudo) ==
    [Log(st, "check_dependencies") EXCEPT
        !.inst = [k \in {q \in DOMAIN st.inst : st.dirs[st.inst[q].path].present}
                     |-> st.inst[k]],
        !.final = check_dependencies(st.inst, st.dirs, host, system, sudo, n)]

\* a call of check_dependencies(repo_path) by the process whose state is st:
\* the report is left in st.final
check(st, n, sudo) ==
    [Log(st, "check_dependencies") EXCEPT
        !.final = check_dependencies(st.inst, st.dirs, host, system, sudo, n)]

\* check_system_dependencies reaches "Check if we can install packages" with
\* packages missing, and runs sudo -n true
SudoProbed(st, n) ==
    LET m == load_gitpm_json(st.dirs[n])
    IN  /\ m[2].type = "none" /\ Truthy(m[1])
        /\ "dependencies" \in m[1].keys /\ "system" \in m[1].dkeys
        /\ Len(check_system_dependencies(host, m[1].system)[2]) > 0

\* check_dependencies as install calls it: subprocess.run(['sudo', '-n',
\* 'true'], timeout=2) is in no try block, so its TimeoutExpired leaves
\* check_dependencies and install
check_or_raise(st, n, faults) ==
    IF "slow_sudo" \in faults /\ SudoProbed(st, n)
    THEN [Log(Log(st, "check_dependencies"), "TimeoutExpired") EXCEPT !.raised = TRUE]
    ELSE check(st, n, "nosudo" \notin faults)

\* the end of dependency handling, on the last report st.final
decide(st, sel, faults) ==
    IF unresolved_system(st.final) THEN Ret(cleanup(st, sel.name, faults), FALSE)
    ELSE register(st, sel, faults)

\* the end of dependency handling once the second check_dependencies is over
decide_checked(c, sel, faults) == IF Stopped(c) THEN c ELSE decide(c, sel, faults)

\* "Re-check after installing gitpm deps", g being the state the loop left
recheck(g, sel, in) ==
    IF Stopped(g) \/ ~g.ret THEN g
    ELSE decide_checked(check_or_raise(g, sel.name, in.faults), sel, in.faults)

\* install after its first check_dependencies, whose report is st.first.
\* if missing_system and can_install_system: gitpm_json is the pair that
\* load_gitpm_json returns, so 'dependencies' in gitpm_json looks for the
\* string among its two elements, and gitpm_json['dependencies'] on the pair
\* would be a TypeError
resolve(st, sel, in) ==
    IF st.first.json_error # None THEN Ret(cleanup(st, sel.name, in.faults), FALSE)
    ELSE IF st.first.sat THEN register(st, sel, in.faults)
    ELSE IF /\ Len(st.first.missing_system) > 0 /\ st.first.can_install_system
            /\ PyIn("dependencies", load_gitpm_json(st.dirs[sel.name]))
    THEN [st EXCEPT !.raised = TRUE]
    ELSE IF Len(st.first.missing_gitpm) > 0 /\ Len(st.first.gitpm_dep_info) > 0
    THEN recheck(install_gitpm_dependencies(Ret(Log(st, "install_dependencies"), TRUE),
                                            sel, st.first.gitpm_dep_info, 1, in),
                 sel, in)
    ELSE decide(st, sel, in.faults)

\* the state after the first check_dependencies returned r
Checked(st, r) == [st EXCEPT !.first = r, !.final = r, !.checked = TRUE]

\* the state after the first check_dependencies of install returned
first_check(c) == Checked(c, c.final)

\* install once its first check_dependencies is over
resolve_checked(c, sel, in) == IF Stopped(c) THEN c ELSE resolve(first_check(c), sel, in)

\* install, from "Check dependencies" to the end, for the clone of sel
install_after_clone(st, sel, skip_dependency_check, in) ==
    IF skip_dependency_check THEN register(st, sel, in.faults)
    ELSE resolve_checked(check_or_raise(st, sel.name, in.faults), sel, in)

\* what can go wrong in the checkout of the declared branch: git branch
\* --list finds no local branch, git branch -r --list finds no remote one,
\* the direct checkout exits non-zero, the last checkout tried exits
\* non-zero, a call raises (git cannot be run)
CheckoutFaults ==
    {"no_local", "no_remote", "direct_fails", "checkout_fails", "checkout_raises"}

\* the checkout commands of install, by the branches found
checkout_strategy(st, faults) ==
    IF "no_local" \notin faults THEN Log(st, "checkout_local")
    ELSE IF "no_remote" \notin faults THEN Log(st, "checkout_track")
    ELSE IF {"direct_fails", "checkout_fails"} \cap faults # {}
    THEN Log(Log(st, "checkout_direct"), "checkout_create")
    ELSE Log(st, "checkout_direct")

\* a checkout of the declared branch whose exception leaves install
checkout_branch_uncaught(st, branch, faults) ==
    IF "checkout_raises" \in faults
    THEN [Log(st, "fetch_branches") EXCEPT !.raised = TRUE]
    ELSE IF "checkout_fails" \in faults
    THEN Log(checkout_strategy(Log(st, "fetch_branches"), faults), "checkout_warning")
    ELSE checkout_strategy(Log(st, "fetch_branches"), faults)

\* install, "Checkout specific branch if provided": the fetch, the checkout
\* commands, and a warning when the last one exits non-zero or a call raises
checkout_branch(st, branch, faults) ==
    IF "checkout_raises" \in faults
    THEN Log(Log(st, "fetch_branches"), "checkout_warning")
    ELSE IF "checkout_fails" \in faults
    THEN Log(checkout_strategy(Log(st, "fetch_branches"), faults), "checkout_warning")
    ELSE checkout_strategy(Log(st, "fetch_branches"), faults)

\* install after git clone: if branch
checkout_declared(st, branch, faults) ==
    IF branch = None THEN st ELSE checkout_branch(st, branch, faults)

\* install from the compatibility check to the end; git clone fails on a
\* directory that exists
clone_selected(st, sel, skip_compatibility_check, skip_dependency_check, in) ==
    IF ~skip_compatibility_check /\ ~check_repo_compatibility(sel.url, sel.branch, in.faults)
    THEN Ret(st, FALSE)
    ELSE IF st.dirs[sel.name].present THEN Ret(Log(st, "clone"), FALSE)
    ELSE install_after_clone(
             checkout_declared(
                 [Log(st, "clone") EXCEPT
                     !.dirs[sel.name] = CloneOf(RepoOf(sel.url), head[RepoOf(sel.url)]),
                     !.cloned = TRUE],
                 sel.branch, in.faults),
             sel, skip_dependency_check, in)

\* the state of an install that is about to verify the repository of sel
Verifying(st, sel) ==
    Log([st EXCEPT !.target = sel.name, !.repo = RepoOf(sel.url), !.cloned = FALSE],
        "verify_repo")

\* install from "Verify repository before cloning" to the end
verify_selected(st, sel, skip_compatibility_check, skip_dependency_check, in) ==
    IF Stopped(st) THEN Ret(st, FALSE)
    ELSE IF "slow_remote" \in in.faults
    THEN Ret(Log(Verifying(st, sel), "TimeoutExpired"), FALSE)
    ELSE IF ~verify_repo(sel.url, sel.branch, in.faults) THEN Ret(Verifying(st, sel), FALSE)
    ELSE clone_selected(IF skip_compatibility_check THEN Verifying(st, sel)
                        ELSE compat_temp(Log(Verifying(st, sel), "check_repo_compatibility"),
                                         in.faults),
                        sel, skip_compatibility_check, skip_dependency_check, in)

\* install once the catalog entry is selected: the reinstall question (an
\* answer of 0 declines), then the removal of the installed package
install_selected(st, selected, skip_compatibility_check, skip_dependency_check, in) ==
    IF Len(selected) = 0 THEN Ret(st, FALSE)
    ELSE IF selected[1].name \in DOMAIN st.inst /\ in.ans = 0 THEN Ret(st, FALSE)
    ELSE verify_selected(IF selected[1].name \in DOMAIN st.inst
                         THEN remove(Log(st, "remove"), selected[1].name, TRUE, in.faults)
                         ELSE st,
                         selected[1], skip_compatibility_check, skip_dependency_check, in)

\* install(name, skip_compatibility_check, skip_dependency_check)
install(st, name, skip_compatibility_check, skip_dependency_check, in) ==
    Leave(install_selected(Enter(st),
                           prompt_selection(find_repos_by_name(catalog, name), in.ans),
                           skip_compatibility_check, skip_dependency_check, in))

\* a nested install that resolves the dependencies of the dependency
nested_dependency_check == FALSE

\* skip_dependency_check of the install of a dependency: "Install with
\* skip_dependency_check to avoid infinite recursion"
nested_skip_dependency_check == TRUE

\* a loop of install that returns on a failed dependency with the clone kept
after_dependency_kept(back, sel, gitpm_dep_info, i, in) ==
    IF Stopped(back) THEN back
    ELSE IF ~back.ret THEN Ret(back, FALSE)
    ELSE install_gitpm_dependencies(back, sel, gitpm_dep_info, i + 1, in)

\* the loop of install after one dependency was installed
after_dependency(back, sel, gitpm_dep_info, i, in) ==
    IF Stopped(back) THEN back
    ELSE IF ~back.ret THEN Ret(cleanup(back, sel.name, in.faults), FALSE)
    ELSE install_gitpm_dependencies(back, sel, gitpm_dep_info, i + 1, in)

\* a loop of install that does not look into the manifest of the dependency
dependency_not_inspected(dep) == FALSE

\* dep_json.get('system_only', False) on the temporary clone of the dependency
dependency_system_only(dep) ==
    SystemOnly(load_gitpm_json(CloneOf(RepoOf(dep.url), head[RepoOf(dep.url)]))[1])

\* the loop of install for the dependency dep: the temporary clone that looks
\* for system_only (with --branch it is not tried again without it), then
\* the install of the dependency
install_dependency(st, sel, gitpm_dep_info, i, in, dep) ==
    IF /\ check_repo_compatibility(dep.url, dep.branch, in.faults)
       /\ ~(dep.branch = None \/ dep.branch \in Branches(RepoOf(dep.url)))
    THEN [st EXCEPT !.raised = TRUE]
    ELSE IF check_repo_compatibility(dep.url, dep.branch, in.faults) /\ "slow_clone" \in in.faults
    THEN [Log(st, "TimeoutExpired") EXCEPT !.raised = TRUE]
    ELSE IF /\ check_repo_compatibility(dep.url, dep.branch, in.faults)
            /\ dependency_system_only(dep)
            /\ ~system
    THEN Ret(cleanup(st, sel.name, in.faults), FALSE)
    ELSE after_dependency(
             [install(Log(st, "install_dependency"), dep.name, FALSE,
                      nested_skip_dependency_check, in)
                 EXCEPT !.target = sel.name, !.repo = st.repo, !.cloned = TRUE],
             sel, gitpm_dep_info, i, in)

\* a loop of install that goes on to the next dependency when no alternative
\* was chosen
install_chosen_skipped(st, sel, gitpm_dep_info, i, in, chosen) ==
    IF Len(chosen) = 0 THEN install_gitpm_dependencies(st, sel, gitpm_dep_info, i + 1, in)
    ELSE install_dependency(probe_temp(compat_temp(Log(st, "check_system_only"), in.faults),
                                       chosen[1], in.faults),
                            sel, gitpm_dep_info, i, in, chosen[1])

\* the loop of install once the alternative is chosen
install_chosen(st, sel, gitpm_dep_info, i, in, chosen) ==
    IF Len(chosen) = 0 THEN Ret(cleanup(st, sel.name, in.faults), FALSE)
    ELSE install_dependency(probe_temp(compat_temp(Log(st, "check_system_only"), in.faults),
                                       chosen[1], in.faults),
                            sel, gitpm_dep_info, i, in, chosen[1])

\* the loop of install over gitpm_dep_info, from the i-th missing dependency
install_gitpm_dependencies(st, sel, gitpm_dep_info, i, in) ==
    IF i > Len(gitpm_dep_info) THEN Ret(st, TRUE)
    ELSE install_chosen(st, sel, gitpm_dep_info, i, in,
             IF Len(gitpm_dep_info[i].alternatives) > 0
             THEN prompt_selection(AlternativeOptions(gitpm_dep_info[i].alternatives, 1),
                                   in.ans)
             ELSE << [name |-> gitpm_dep_info[i].name, url |-> gitpm_dep_info[i].url,
                      branch |-> gitpm_dep_info[i].branch] >>)

\* git status --porcelain prints something: a file was edited, or a mode differs
\* from the one committed (the hooks of Trees are committed without the
\* executable bit)
has_local_changes(d) == d.dirty \/ d.x # {}

\* the exit code of the check script in this run
CheckExit(faults) == IF "check1" \in faults THEN 1 ELSE IF "check2" \in faults THEN 2 ELSE 0

\* an updates_available that looks at the commits only
updates_available_by_commit(has_check_script, check_exit_code, current_commit, remote_commit) ==
    current_commit # remote_commit

\* updates_available of update
updates_available(has_check_script, check_exit_code, current_commit, remote_commit) ==
    IF has_check_script /\ check_exit_code = 1 THEN TRUE
    ELSE IF has_check_script /\ check_exit_code = 0 THEN FALSE
    ELSE current_commit # remote_commit

\* update: the paths of the update and check hooks are stored when found,
\* and the registry is saved when one was
store_scripts(st, name, repo_path, again, faults) ==
    IF again.scripts["update"] # NoPath \/ again.scripts["check"] # NoPath
    THEN Ret(save_installed(
                 [st EXCEPT !.inst[name].update_script =
                                IF again.scripts["update"] # NoPath
                                THEN ScriptPath(repo_path, again.scripts["update"]) ELSE @,
                            !.inst[name].check_script =
                                IF again.scripts["check"] # NoPath
                                THEN ScriptPath(repo_path, again.scripts["check"]) ELSE @],
                 faults), TRUE)
    ELSE Ret(st, TRUE)

\* update after the pull: the hooks are looked up again and the update hook,
\* or else the setup hook, is run
run_update_scripts(st, name, repo_path, again, faults) ==
    store_scripts(IF again.scripts["update"] # NoPath
                  THEN run_script([st EXCEPT !.dirs[repo_path] = again.dir],
                                  "run_update_script", faults)
                  ELSE IF again.scripts["setup"] # NoPath
                  THEN run_script([st EXCEPT !.dirs[repo_path] = again.dir],
                                  "run_setup_script", faults)
                  ELSE [st EXCEPT !.dirs[repo_path] = again.dir],
                  name, repo_path, again, faults)

\* an update that pulls whatever git status reports
pull_merging(st, repo_path, remote_commit) ==
    [Log(st, "pull") EXCEPT !.dirs[repo_path].commit = remote_commit]

\* update: reset --hard and clean -fd when git status reports changes, then
\* the pull
pull(st, repo_path, remote_commit) ==
    IF has_local_changes(st.dirs[repo_path])
    THEN [Log(st, "reset") EXCEPT
             !.dirs[repo_path] = CloneOf(st.dirs[repo_path].repo, remote_commit)]
    ELSE [Log(st, "pull") EXCEPT !.dirs[repo_path].commit = remote_commit]

\* update after the pull
update_pulled(st, name, repo_path, faults) ==
    run_update_scripts(st, name, repo_path, check_scripts(st.dirs[repo_path], system), faults)

\* update once updates_available is known
update_available(st, name, repo_path, branch, check_only, available, in) ==
    IF ~available THEN Ret(st, TRUE)
    ELSE IF check_only THEN Ret(st, TRUE)
    ELSE IF branch # None /\ branch \notin Branches(st.dirs[repo_path].repo)
    THEN Ret(Log(st, "checkout"), FALSE)
    ELSE update_pulled(pull(IF branch # None THEN Log(st, "checkout") ELSE st, repo_path,
                            head[st.dirs[repo_path].repo]),
                       name, repo_path, in.faults)

\* update after the fetch: check_scripts, then the check hook when there is one
update_fetched(st, name, repo_path, check_only, found, in) ==
    update_available(IF found.scripts["check"] # NoPath
                     THEN run_script([st EXCEPT !.dirs[repo_path] = found.dir],
                                     "run_check_script", {})
                     ELSE [st EXCEPT !.dirs[repo_path] = found.dir],
                     name, repo_path, st.inst[name].branch, check_only,
                     updates_available(found.scripts["check"] # NoPath, CheckExit(in.faults),
                                       st.dirs[repo_path].commit,
                                       head[st.dirs[repo_path].repo]),
                     in)

\* an update that fetches before it looks for the installation path
update_package_fetching(st, name, repo_path, check_only, in) ==
    IF ~st.dirs[repo_path].present \/ st.dirs[repo_path].repo \in in.faults
    THEN Ret(Log([st EXCEPT !.target = repo_path], "fetch"), FALSE)
    ELSE update_fetched(Log([st EXCEPT !.target = repo_path], "fetch"), name, repo_path,
                        check_only, check_scripts(st.dirs[repo_path], system), in)

\* update of the package in repo_path
update_package(st, name, repo_path, check_only, in) ==
    IF ~st.dirs[repo_path].present THEN Ret(st, FALSE)
    ELSE IF st.dirs[repo_path].repo \in in.faults
    THEN Ret(Log([st EXCEPT !.target = repo_path], "fetch"), FALSE)
    ELSE update_fetched(Log([st EXCEPT !.target = repo_path], "fetch"), name, repo_path,
                        check_only, check_scripts(st.dirs[repo_path], system), in)

\* update(name, check_only) for one package
update(st, name, check_only, in) ==
    IF name \notin DOMAIN st.inst THEN Ret(st, FALSE)
    ELSE update_package(st, name, st.inst[name].path, check_only, in)

RECURSIVE update_all_from(_, _, _, _, _)

\* a loop of update that stops at the first package whose update fails
update_next_stopping(r, names, i, success, in) ==
    IF ~r.ret THEN [r EXCEPT !.calls = Append(@, [name |-> names[i], ret |-> r.ret])]
    ELSE update_all_from([r EXCEPT !.calls = Append(@, [name |-> names[i], ret |-> r.ret])],
                         names, i + 1, success /\ r.ret, in)

\* the loop of update after self.update(name) returned: if not
\* self.update(name): success = False
update_next(r, names, i, success, in) ==
    update_all_from([r EXCEPT !.calls = Append(@, [name |-> names[i], ret |-> r.ret])],
                    names, i + 1, success /\ r.ret, in)

\* for name in list(self.installed.keys()), from the i-th name; the call is
\* self.update(name), so check_only is False whatever update was given
update_all_from(st, names, i, success, in) ==
    IF Stopped(st) THEN st
    ELSE IF i > Len(names) THEN Ret(st, success)
    ELSE update_next(update(st, names[i], FALSE, in), names, i, success, in)

\* update(None, check_only): names is list(self.installed.keys())
update_all(st, names, check_only, in) ==
    IF DOMAIN st.inst = {} THEN Ret(st, TRUE)
    ELSE update_all_from(st, names, 1, TRUE, in)

----------------------------------------------------------------------------
(* The runs of the model. *)

CatTool == << Entry(Url("acme", "tool"), None, "tool") >>
CatBasic == << Entry(Url("acme", "bad"), None, None),
               Entry(Url("acme", "sys"), None, None) >>
CatScope == << Entry(Url("acme", "sysd"), None, None) >>
CatDeps == << Entry(Url("acme", "app"), None, "app"),
              Entry(Url("acme", "lib"), None, None) >>
CatAlts == << Entry(Url("acme", "app2"), None, None),
              Entry(Url("acme", "lib"), None, "Lib"),
              Entry(Url("acme", "sys"), None, None) >>
CatBadDep == << Entry(Url("acme", "app3"), None, None),
                Entry(Url("acme", "bad"), None, None) >>
CatCycle == << Entry(Url("acme", "ping"), None, None),
               Entry(Url("acme", "pong"), None, None) >>
CatBranch == << Entry(Url("acme", "lib"), "main", "lib") >>
Catalogs == {CatTool, CatBasic, CatScope, CatDeps, CatAlts, CatBadDep, CatCycle, CatBranch}

\* the display names of a catalog, and one name no catalog has
NamesOf(cat) ==
    {IF cat[i].name # None THEN cat[i].name ELSE parse_repo_url(cat[i].url)[3] :
        i \in 1..Len(cat)}
Requests(cat) == NamesOf(cat) \cup {"ghost"}
ReposOf(cat) == {RepoOf(cat[i].url) : i \in 1..Len(cat)}

\* the commands the manifests of a catalog probe on the host
Probed(cat) ==
    UNION { {e.v[j] : j \in 1..Len(e.v)} :
            e \in UNION { {Trees[r].gitpm_json.json.system.check_commands[i] :
                              i \in 1..Len(Trees[r].gitpm_json.json.system.check_commands)} :
                          r \in {q \in ReposOf(cat) : Trees[q].gitpm_json.kind = "valid"} } }

\* the external failures that can make a difference to a command on a catalog
HookFaults(cat) == IF \E r \in ReposOf(cat) : Trees[r].hooks # {} THEN {"hook"} ELSE {}
SudoFaults(cat) == IF Probed(cat) # {} THEN {"nosudo"} ELSE {}
InstallFaults(cat) == ReposOf(cat) \cup {"rm"} \cup HookFaults(cat) \cup SudoFaults(cat)
UpdateFaults(cat) == ReposOf(cat) \cup HookFaults(cat)
RemoveFaults(cat) == {"rm"} \cup HookFaults(cat)

FaultSets(universe) == {F \in SUBSET universe : Cardinality(F) <= MaxFaults}
Answers == {0, 1, 2}
\* the repositories whose manifest lists alternatives for a dependency
Alternatives ==
    {r \in Repos :
        /\ Trees[r].gitpm_json.kind = "valid"
        /\ \E i \in 1..Len(Trees[r].gitpm_json.json.gitpm) :
              Trees[r].gitpm_json.json.gitpm[i].list}
\* what the user types that makes a difference on a catalog: the question
\* whether to reinstall is answered by 0 or not, and prompt_selection offers
\* a second option only when a name matches several entries or a manifest
\* lists alternatives
AnswersOf(cat) ==
    IF \/ \E name \in Requests(cat) : Len(find_repos_by_name(cat, name)) > 1
       \/ Alternatives \cap ReposOf(cat) # {}
    THEN Answers ELSE {0, 1}
\* the package whose remote and working tree the environment changes
Pushable == {"tool"}

NoCall == [op |-> "none"]

NoSave == [pre |-> NoFile, post |-> EmptyReg]

Has(log, e) == \E i \in 1..Len(log) : log[i] = e

\* the install method the manifest of a repository declares for its system
\* dependencies, None when it declares none
MethodOf(r) ==
    LET m == load_gitpm_json(CloneOf(r, 0))[1]
    IN  IF Truthy(m) /\ "dependencies" \in m.keys /\ "system" \in m.dkeys
        THEN check_system_dependencies({}, m.system)[3]
        ELSE None

\* the summary of a command kept in last
Call(op, p, flag, r) ==
    [op |-> op, p |-> p, flag |-> flag,
     ret |-> r.ret /\ ~Stopped(r), returned |-> ~Stopped(r), crashed |-> r.dead,
     saving |-> IF r.dead THEN r.saving ELSE NoSave,
     target |-> r.target, repo |-> r.repo, cloned |-> r.cloned,
     cleanup_failed |-> r.cleanup_failed, registered |-> r.registered,
     checked |-> r.checked,
     installable |-> /\ r.checked /\ Len(r.first.missing_system) > 0
                     /\ r.first.can_install_system /\ MethodOf(r.repo) # None,
     installer |-> Has(r.log, "install_system_packages"),
     depth |-> r.deepest, temps |-> r.temps, calls |-> r.calls, events |-> {r.log[i] : i \in 1..Len(r.log)},
     missing_system |-> Len(r.final.missing_system) > 0,
     missing_gitpm |-> Len(r.final.missing_gitpm) > 0,
     fatal |-> r.final.json_error # None]

\* what a command leaves behind: the process keeps its registry, or is gone
\* after a crash in save_installed or an uncaught exception
Finish(p, r, call) ==
    /\ dirs' = r.dirs
    /\ IF r.dead THEN disk' \in CrashFiles(r.saving) ELSE disk' = r.disk
    /\ installed' = [installed EXCEPT ![p] =
                        IF Stopped(r) THEN NotRunning ELSE [running |-> TRUE, reg |-> r.inst]]
    /\ last' = call
    /\ UNCHANGED <<catalog, system, host, head>>

\* GitPackageManager.__init__: a process starts and loads the registry
Start(p) ==
    /\ ~installed[p].running
    /\ installed' = [installed EXCEPT ![p] = [running |-> TRUE, reg |-> load_installed(disk)]]
    /\ last' = NoCall
    /\ UNCHANGED <<catalog, system, host, head, dirs, disk>>

\* gitpm install name [--force]
Install(p, name, force, faults, ans) ==
    /\ installed[p].running
    /\ LET r == install(St(installed[p].reg, disk, dirs), name, force, FALSE,
                        [faults |-> faults, ans |-> ans])
       IN  Finish(p, r, Call("install", p, force, r))

\* gitpm update name [--check]
Update(p, name, check_only, faults) ==
    /\ installed[p].running
    /\ LET r == update(St(installed[p].reg, disk, dirs), name, check_only,
                       [faults |-> faults, ans |-> 0])
       IN  Finish(p, r, Call("update", p, check_only, r))

\* the orders in which a dict may hold the keys S
Orders(S) ==
    {f \in [1..Cardinality(S) -> S] : \A i, j \in 1..Cardinality(S) : i # j => f[i] # f[j]}

\* gitpm update [--check]
UpdateAll(p, check_only, faults, names) ==
    /\ installed[p].running
    /\ LET r == update_all(St(installed[p].reg, disk, dirs), names, check_only,
                           [faults |-> faults, ans |-> 0])
       IN  Finish(p, r, Call("update_all", p, check_only, r))

\* gitpm remove name
Remove(p, name, faults) ==
    /\ installed[p].running
    /\ LET r == remove(St(installed[p].reg, disk, dirs), name, FALSE, faults)
       IN  Finish(p, r, Call("remove", p, FALSE, r))

\* a commit is pushed to a remote repository
Push(r) ==
    /\ head[r] < MaxCommit
    /\ head' = [head EXCEPT ![r] = @ + 1]
    /\ last' = NoCall
    /\ UNCHANGED <<catalog, system, host, dirs, disk, installed>>

\* the user edits a file of an installed working tree
Edit(n) ==
    /\ dirs[n].present /\ ~dirs[n].dirty
    /\ dirs' = [dirs EXCEPT ![n].dirty = TRUE]
    /\ last' = NoCall
    /\ UNCHANGED <<catalog, system, host, head, disk, installed>>

\* the user discards the local modifications of a working tree (git checkout .)
Revert(n) ==
    /\ dirs[n].present /\ has_local_changes(dirs[n])
    /\ dirs' = [dirs EXCEPT ![n].dirty = FALSE, ![n].x = {}]
    /\ last' = NoCall
    /\ UNCHANGED <<catalog, system, host, head, disk, installed>>

\* the user deletes an install directory by hand
DeletePath(n) ==
    /\ dirs[n].present
    /\ dirs' = [dirs EXCEPT ![n] = NoDir]
    /\ last' = NoCall
    /\ UNCHANGED <<catalog, system, host, head, disk, installed>>

Init ==
    /\ catalog \in Catalogs
    /\ system \in BOOLEAN
    /\ host \in SUBSET Probed(catalog)
    /\ head = [r \in Repos |-> 0]
    /\ dirs = [n \in DirNames |-> NoDir]
    /\ disk = NoFile
    /\ installed = [p \in Procs |-> IF p = Main
                                     THEN [running |-> TRUE, reg |-> load_installed(NoFile)]
                                     ELSE NotRunning]
    /\ last = NoCall

\* the commands a process may run; more names the failures of the process
\* itself that the specification admits
Commands(p, more) ==
    \/ \E name \in Requests(catalog), force \in BOOLEAN,
          faults \in FaultSets(InstallFaults(catalog) \cup more), ans \in AnswersOf(catalog) :
            Install(p, name, force, faults, ans)
    \/ \E name \in Requests(catalog), check_only \in BOOLEAN,
          faults \in FaultSets(UpdateFaults(catalog) \cup more) :
            Update(p, name, check_only, faults)
    \/ \E name \in Requests(catalog), faults \in FaultSets(RemoveFaults(catalog) \cup more) :
            Remove(p, name, faults)

Environment ==
    \/ \E r \in Pushable \cap ReposOf(catalog) : Push(r)
    \/ \E n \in Pushable \cap NamesOf(catalog) : Edit(n)
    \/ \E n \in Pushable \cap NamesOf(catalog) : Revert(n)
    \/ \E n \in Pushable \cap NamesOf(catalog) : DeletePath(n)

\* one process uses the scope and no process dies
Next ==
    \/ Commands(Main, {})
    \/ Environment

Spec == Init /\ [][Next]_vars

\* one process after another uses the scope, and a process may die while it
\* writes the registry
NextCrash ==
    \/ Start(Main)
    \/ Commands(Main, {"crash"})
    \/ Environment

SpecCrash == Init /\ [][NextCrash]_vars

\* two processes use the scope at the same time; the second starts at any
\* moment and loads the registry file as it is then
NextRace ==
    \/ \E p \in Procs : Start(p)
    \/ \E p \in Procs : Commands(p, {})

\* the race is followed in user scope on the catalog of an application and
\* its library, on a host that has the commands the application probes
InitRace == Init /\ catalog = CatDeps /\ ~system /\ host = Probed(CatDeps)

SpecRace == InitRace /\ [][NextRace]_vars

\* a package whose repository has a check hook and gains hooks by a commit,
\* and a package without hooks
CatCheck == << Entry(Url("acme", "mon"), None, None),
               Entry(Url("acme", "lib"), None, None) >>
\* the exit codes of the check hook other than 0
CheckFaults == {"check1", "check2"}

InitHooks ==
    /\ catalog = CatCheck
    /\ system = FALSE
    /\ host = {}
    /\ head = [r \in Repos |-> 0]
    /\ dirs = [n \in DirNames |-> NoDir]
    /\ disk = NoFile
    /\ installed = [p \in Procs |-> IF p = Main
                                     THEN [running |-> TRUE, reg |-> load_installed(NoFile)]
                                     ELSE NotRunning]
    /\ last = NoCall

\* the runs of update in which the check hook exits with another code than 0
Exiting(cat) ==
    {F \in FaultSets(UpdateFaults(cat) \cup CheckFaults) : F \cap CheckFaults # {}}

\* one process uses the scope, the check hook exits with any code and
\* commits are pushed to the repositories
NextHooks ==
    \/ Commands(Main, {})
    \/ \E name \in Requests(catalog), check_only \in BOOLEAN, faults \in Exiting(catalog) :
            Update(Main, name, check_only, faults)
    \/ \E r \in ReposOf(catalog) : Push(r)

SpecHooks == InitHooks /\ [][NextHooks]_vars

\* one process installs packages and updates all the packages of the
\* registry, in any order of its keys; commits are pushed and installation
\* paths deleted
NextUpdateAll ==
    \/ \E name \in NamesOf(catalog), faults \in FaultSets(InstallFaults(catalog)) :
            Install(Main, name, FALSE, faults, 0)
    \/ \E check_only \in BOOLEAN, faults \in FaultSets(UpdateFaults(catalog)),
          names \in Orders(DOMAIN installed[Main].reg) :
            UpdateAll(Main, check_only, faults, names)
    \/ \E r \in ReposOf(catalog) : Push(r)
    \/ \E n \in NamesOf(catalog) : DeletePath(n)

SpecUpdateAll == InitHooks /\ [][NextUpdateAll]_vars

\* the external processes that may exceed the timeout subprocess.run gives
\* them: git ls-remote of verify_repo, sudo -n true of the dependency check,
\* git clone of the look into a dependency
Timeouts == {"slow_remote", "slow_sudo", "slow_clone"}
\* rmtree of a temporary directory fails
TempFaults == {"rmtmp"}

\* the failures of external processes that only install meets: update and
\* remove give their subprocesses no timeout and make no temporary directory
Hanging(cat) ==
    {F \in FaultSets(InstallFaults(cat) \cup Timeouts \cup TempFaults) :
        F \cap (Timeouts \cup TempFaults) # {}}

\* one process after another uses the scope, and external processes may hang
NextTimeout ==
    \/ Start(Main)
    \/ Commands(Main, {})
    \/ \E name \in Requests(catalog), force \in BOOLEAN, faults \in Hanging(catalog),
          ans \in AnswersOf(catalog) :
            Install(Main, name, force, faults, ans)

\* timeouts are followed in user scope on the catalogs whose manifests
\* declare dependencies
InitTimeout == Init /\ catalog = CatDeps /\ ~system

SpecTimeout == InitTimeout /\ [][NextTimeout]_vars

----------------------------------------------------------------------------
(* The claims. *)

Reg(p) == installed[p].reg
InstallReturned == last.op = "install" /\ last.returned
\* the first manifest file that exists in a repository is not valid JSON
FirstManifestInvalid(r) ==
    \/ Trees[r].gitpm_json.kind = "invalid"
    \/ Trees[r].gitpm_json.kind = "absent" /\ Trees[r].dot_gitpm_json.kind = "invalid"
\* the manifest of a repository declares system_only
DeclaresSystemOnly(r) ==
    \/ Trees[r].gitpm_json.kind = "valid" /\ Trees[r].gitpm_json.json.system_only
    \/ /\ Trees[r].gitpm_json.kind = "absent" /\ Trees[r].dot_gitpm_json.kind = "valid"
       /\ Trees[r].dot_gitpm_json.json.system_only
ScopeErrors == {"requires system-wide installation",
                "installed dependencies require system install"}

(* C1 as stated: after an install that returns failure once its own clone  *)
(* succeeded, the install directory of the package does not exist.          *)
C1_NoDirectoryAfterFailure ==
    (InstallReturned /\ ~last.ret /\ last.cloned) => ~dirs[last.target].present

(* C1 amended: after an install that returns failure once its own clone    *)
(* succeeded, the install directory does not exist unless the rmtree of    *)
(* the clean-up itself failed.                                              *)
C1_CleanupOnFailure ==
    (InstallReturned /\ ~last.ret /\ last.cloned)
        => (~dirs[last.target].present \/ last.cleanup_failed)

C1_Witness ==
    InstallReturned /\ ~last.ret /\ last.cloned /\ ~dirs[last.target].present

(* C2: in user scope no registered package comes from a repository whose   *)
(* manifest declares system_only.                                           *)
C2_NoSystemOnlyInUserRegistry ==
    ~system => \A p \in Procs : installed[p].running =>
                  \A n \in DOMAIN Reg(p) : ~DeclaresSystemOnly(RepoOf(Reg(p)[n].url))

(* C3: dependency resolution of a working tree whose manifest declares     *)
(* system_only returns a fatal error in user scope and no scope error in   *)
(* system scope, whatever else the manifest holds.                          *)
C3_SystemOnlyResolution ==
    \A n \in DirNames, sudo \in BOOLEAN :
        (installed[Main].running /\ dirs[n].present /\ DeclaresSystemOnly(dirs[n].repo))
            => LET report == check_dependencies(Reg(Main), dirs, host, system, sudo, n)
               IN  IF system THEN report.json_error \notin ScopeErrors
                   ELSE report.json_error # None

(* C4: an install whose first resolution reports missing system packages   *)
(* that may be installed, with an install method declared, invokes the     *)
(* installer (and resolves again) before it decides.                        *)
C4_InstallerInvoked ==
    (last.op = "install" /\ last.installable) => last.installer

(* C5 as stated: an install with dependency checking whose last resolution *)
(* reports a missing system package returns failure, does not register the *)
(* package and has removed the clone.                                       *)
C5_UnresolvedSystemRemovesClone ==
    (InstallReturned /\ last.checked /\ last.missing_system)
        => /\ ~last.ret
           /\ last.target \notin DOMAIN Reg(last.p)
           /\ ~dirs[last.target].present

(* C5 amended: such an install returns failure and does not register the   *)
(* package, and the clone is removed unless the rmtree itself failed.       *)
C5_UnresolvedSystemFails ==
    (InstallReturned /\ last.checked /\ last.missing_system)
        => /\ ~last.ret
           /\ last.target \notin DOMAIN Reg(last.p)
           /\ (~dirs[last.target].present \/ last.cleanup_failed)

C5_Witness ==
    /\ InstallReturned /\ last.checked /\ last.missing_system
    /\ ~last.ret /\ ~dirs[last.target].present

(* C6: when a top-level install registers the package, its last dependency *)
(* resolution reported no fatal error and no missing peer dependency.       *)
C6_RegisteredOnlyWhenResolved ==
    (InstallReturned /\ last.checked /\ last.ret)
        => (~last.fatal /\ ~last.missing_gitpm)

(* C7 as stated: no install, whether run for a requested package or for a  *)
(* dependency, registers a package whose first manifest file is invalid.    *)
C7_InvalidManifestNeverRegistered ==
    last.op = "install" =>
        \A i \in 1..Len(last.registered) :
            dirs[last.registered[i]].present
                => ~FirstManifestInvalid(dirs[last.registered[i]].repo)

(* C7 amended: an install run with dependency checking whose clone has an  *)
(* invalid first manifest file returns failure and does not register the   *)
(* package, with or without --force.                                        *)
C7_InvalidManifestFails ==
    (InstallReturned /\ last.cloned /\ FirstManifestInvalid(last.repo))
        => /\ ~last.ret
           /\ last.target \notin DOMAIN Reg(last.p)
           /\ \A i \in 1..Len(last.registered) : last.registered[i] # last.target

C7_Witness ==
    /\ InstallReturned /\ last.cloned /\ last.flag /\ FirstManifestInvalid(last.repo)
    /\ ~last.ret

(* C8: update with check_only leaves the working trees, the registry in    *)
(* memory and on disk, and the recorded hook paths as they were.            *)
C8_CheckOnlyChangesNothing ==
    [][(last'.op = "update" /\ last'.flag)
          => (dirs' = dirs /\ installed' = installed /\ disk' = disk)]_vars

(* C9: after a crash in save_installed the registry file loads as the      *)
(* registry from before the save or as the registry being saved.            *)
C9_CrashConsistent ==
    (last.op # "none" /\ last.crashed)
        => load_installed(disk) \in {load_installed(last.saving.pre), last.saving.post}

(* C10: two running processes that each hold a package the other does not  *)
(* (each loaded the registry before the other saved) have lost an update:  *)
(* the registry file lacks one of the two packages.                         *)
C10_LostUpdate ==
    \A a, b \in DirNames :
        ( /\ installed["p1"].running /\ installed["p2"].running
          /\ a \in DOMAIN Reg("p1") \ DOMAIN Reg("p2")
          /\ b \in DOMAIN Reg("p2") \ DOMAIN Reg("p1") )
            => ~({a, b} \subseteq DOMAIN load_installed(disk))

C10_Witness ==
    /\ installed["p1"].running /\ installed["p2"].running
    /\ InstallReturned /\ last.ret /\ last.p = "p2"
    /\ last.target \in DOMAIN Reg("p2") \ DOMAIN Reg("p1")
    /\ \E a \in DOMAIN Reg("p1") \ DOMAIN Reg("p2") : a \notin DOMAIN load_installed(disk)

\* the repositories whose peer dependencies form a cycle
Cyclic == {"ping", "pong"}

(* C11 as stated: an install of a package on a cycle of peer dependencies, *)
(* neither package installed, that starts to install its dependency never  *)
(* returns.                                                                 *)
C11_CycleNeverReturns ==
    ~(last.op = "install" /\ last.repo \in Cyclic /\ last.depth >= 2 /\ last.returned)

(* C11 amended: no install nests more than two calls of install, and an    *)
(* install of a package on a cycle of peer dependencies returns.            *)
C11_NestingBounded ==
    last.op = "install"
        => (last.depth <= 2 /\ (last.repo \in Cyclic => last.returned))

C11_Witness ==
    /\ last.op = "install" /\ last.repo = "ping" /\ last.depth = 2
    /\ last.ret /\ last.registered = << "pong", "ping" >>

\* the directories of the install root that no record of the registry has
\* as its path
Orphans(d, reg) ==
    {n \in DirNames : d[n].present /\ \A k \in DOMAIN reg : reg[k].path # n}
OrphansNow == Orphans(dirs, Reg(Main))

(* C12 as stated: between commands every directory of the install root is  *)
(* the path of a registry record.                                           *)
C12_NoOrphans == installed[Main].running => OrphansNow = {}

(* C12 amended: a command adds a directory that no registry record has as  *)
(* its path only when the rmtree of install's clean-up failed.              *)
C12_NoNewOrphan ==
    [][(last'.op # "none" /\ ~last'.cleanup_failed) => OrphansNow' \subseteq OrphansNow]_vars

C12_Witness ==
    /\ InstallReturned /\ ~last.ret /\ last.cloned /\ last.registered = <<>>
    /\ "install_dependency" \in last.events /\ OrphansNow = {}

(* C13: an install that verified the repository and did not go on to clone *)
(* (verify_repo or the compatibility check failed) returns failure and     *)
(* leaves the install root and the registry, in memory and on disk, as     *)
(* they were.                                                               *)
C13_FailedCheckChangesNothing ==
    [][(last'.op = "install" /\ "verify_repo" \in last'.events /\ "clone" \notin last'.events)
          => (~last'.ret /\ dirs' = dirs /\ installed' = installed /\ disk' = disk)]_vars

\* every a of a log comes before every b of it
Before(log, a, b) ==
    \A i, j \in 1..Len(log) : (log[i] = a /\ log[j] = b) => i < j

(* C14: remove of a registered package whose recorded path does not exist  *)
(* returns success, runs no hook, and leaves the name out of the registry  *)
(* in memory and on disk.                                                   *)
C14_RemoveMissingPath ==
    installed[Main].running =>
        \A name \in DOMAIN Reg(Main), faults \in FaultSets(RemoveFaults(catalog)) :
            ~dirs[Reg(Main)[name].path].present =>
                LET r == remove(St(Reg(Main), disk, dirs), name, FALSE, faults)
                IN  /\ r.ret /\ ~Stopped(r)
                    /\ ~Has(r.log, "run_remove_script")
                    /\ name \notin DOMAIN r.inst
                    /\ name \notin DOMAIN load_installed(r.disk)

C14_Witness ==
    /\ last.op = "remove" /\ last.ret
    /\ "rmtree" \notin last.events /\ "save_installed" \in last.events

(* C15: remove of a registered package whose directory exists runs the     *)
(* hook, then deletes the directory, then deletes and saves the registry   *)
(* entry; whether the hook is absent or fails, the package is removed when *)
(* the directory deletion succeeds; when it fails, remove returns failure  *)
(* and the registry is as it was.                                           *)
C15_RemoveOrder ==
    installed[Main].running =>
        \A name \in DOMAIN Reg(Main), faults \in FaultSets(RemoveFaults(catalog)) :
            dirs[Reg(Main)[name].path].present =>
                LET r == remove(St(Reg(Main), disk, dirs), name, FALSE, faults)
                    gone == ~r.dirs[Reg(Main)[name].path].present
                IN  /\ Before(r.log, "run_remove_script", "rmtree")
                    /\ Before(r.log, "run_remove_script", "rmtree_failed")
                    /\ Before(r.log, "rmtree", "save_installed")
                    /\ Has(r.log, "save_installed") => gone
                    /\ gone => /\ r.ret /\ name \notin DOMAIN r.inst
                               /\ name \notin DOMAIN load_installed(r.disk)
                    /\ ~gone => (~r.ret /\ r.inst = Reg(Main) /\ r.disk = disk)
                    /\ gone \/ "rm" \in faults

C15_Witness ==
    /\ last.op = "remove" /\ last.ret
    /\ {"run_remove_script", "script_failed", "rmtree", "save_installed"} \subseteq last.events

\* the members alternative groups are made of, and the groups
Members == { Dep(Url("acme", "lib"), None, "Lib"), Dep(Url("acme", "lib"), None, "lib"),
            Dep(Url("acme", "sys"), None, None) }
Groups == { <<a>> : a \in Members } \cup { <<a, b>> : a, b \in Members }
              \cup { <<a, b, c>> : a, b, c \in Members }
\* the working tree a registry record points to declares system_only
RecordSystemOnly(reg, d, n) ==
    d[reg[n].path].present /\ DeclaresSystemOnly(d[reg[n].path].repo)

(* C16: an alternative group is reported satisfied exactly when some       *)
(* member's name is a registry key; the system_only check is made on the   *)
(* first installed member and on no other; an unsatisfied group is missing *)
(* under its first member's name and carries the whole group.               *)
C16_AlternativeGroup ==
    installed[Main].running =>
        \A alts \in Groups :
            LET r == check_gitpm_dependencies(Reg(Main), dirs, system, << Alts(alts) >>)
                names == [i \in 1..Len(alts) |-> DescriptorName(alts[i])]
                isIn == [i \in 1..Len(alts) |-> names[i] \in DOMAIN Reg(Main)]
                flagged == [i \in 1..Len(alts) |->
                               /\ isIn[i] /\ \A j \in 1..(i - 1) : ~isIn[j]
                               /\ ~system /\ RecordSystemOnly(Reg(Main), dirs, names[i])]
            IN  /\ r[1] <=> \E i \in 1..Len(alts) : isIn[i]
                /\ \A i \in 1..Len(alts) : flagged[i] => r[4] = << names[i] >>
                /\ (\A i \in 1..Len(alts) : ~flagged[i]) => r[4] = <<>>
                /\ ~r[1] => /\ r[2] = << names[1] >>
                            /\ Len(r[3]) = 1 /\ r[3][1].alternatives = alts

C16_Witness ==
    /\ installed[Main].running /\ ~system
    /\ {"Lib", "sys"} \subseteq DOMAIN Reg(Main)
    /\ LET lib == Dep(Url("acme", "lib"), None, "Lib")
           sys == Dep(Url("acme", "sys"), None, None)
           first == check_gitpm_dependencies(Reg(Main), dirs, system, << Alts(<<lib, sys>>) >>)
           second == check_gitpm_dependencies(Reg(Main), dirs, system, << Alts(<<sys, lib>>) >>)
       IN  first[1] /\ first[4] = <<>> /\ second[1] /\ second[4] = << "sys" >>

\* the alternative group that the manifest of the catalog entry called name
\* declares as its first peer dependency, <<>> when it declares none
GroupOf(name) ==
    LET found == find_repos_by_name(catalog, name)
    IN  IF Len(found) # 1 THEN <<>>
        ELSE LET m == load_gitpm_json(CloneOf(RepoOf(found[1].url), 0))[1]
             IN  IF /\ Truthy(m) /\ "dependencies" \in m.keys /\ "gitpm" \in m.dkeys
                    /\ Len(m.gitpm) > 0 /\ m.gitpm[1].list
                 THEN m.gitpm[1].v
                 ELSE <<>>
\* the positions of the packages a call registered under the name n, matched
\* as find_repos_by_name matches names
RegisteredAt(r, n) == {k \in 1..Len(r.registered) : Lower(r.registered[k]) = Lower(n)}

(* C17: an install that reaches the dependency loop for an alternative     *)
(* group with no member registered registers the parent only after it      *)
(* registered the member that was chosen, and does not register the parent *)
(* when no choice is made or the install of the chosen member fails.        *)
C17_ChosenAlternativeFirst ==
    installed[Main].running =>
        \A name \in Requests(catalog), force \in BOOLEAN,
           faults \in FaultSets(InstallFaults(catalog)), ans \in Answers :
            LET g == GroupOf(name)
            IN  (/\ Len(g) > 0
                 /\ \A i \in 1..Len(g) : DescriptorName(g[i]) \notin DOMAIN Reg(Main))
                => LET r == install(St(Reg(Main), disk, dirs), name, force, FALSE,
                                    [faults |-> faults, ans |-> ans])
                       parent == RegisteredAt(r, name)
                   IN  Has(r.log, "install_dependencies") =>
                         /\ ans \notin 1..Len(g) => (~r.ret /\ parent = {})
                         /\ ~Has(r.log, "install_dependency") => parent = {}
                         /\ \A k \in parent :
                               /\ ans \in 1..Len(g)
                               /\ \E j \in RegisteredAt(r, DescriptorName(g[ans])) : j < k
                         /\ (ans \in 1..Len(g) /\ RegisteredAt(r, DescriptorName(g[ans])) = {})
                               => (~r.ret /\ parent = {})

C17_Witness ==
    /\ last.op = "install" /\ last.ret /\ last.target = "app2"
    /\ Len(last.registered) = 2 /\ last.registered[2] = "app2"
    /\ "install_dependency" \in last.events

\* the install of name with the answer ans reaches, in user scope, a missing
\* dependency whose manifest declares system_only: the member ans of a group
\* of which no member is registered
SystemOnlyChosen(name, ans, r) ==
    /\ ~system
    /\ ans \in 1..Len(GroupOf(name))
    /\ \A i \in 1..Len(GroupOf(name)) : DescriptorName(GroupOf(name)[i]) \notin DOMAIN Reg(Main)
    /\ RepoOf(GroupOf(name)[ans][1]) # None
    /\ DeclaresSystemOnly(RepoOf(GroupOf(name)[ans][1]))
    /\ Has(r.log, "check_system_only")

(* C18 as stated: in user scope an install whose missing dependency        *)
(* declares system_only returns failure with neither the dependency nor    *)
(* the parent registered and with the clone of the parent removed.          *)
C18_SystemOnlyDependencyRemovesClone ==
    installed[Main].running =>
        \A name \in Requests(catalog), force \in BOOLEAN,
           faults \in FaultSets(InstallFaults(catalog)), ans \in Answers :
            LET r == install(St(Reg(Main), disk, dirs), name, force, FALSE,
                             [faults |-> faults, ans |-> ans])
            IN  SystemOnlyChosen(name, ans, r) =>
                    /\ ~r.ret
                    /\ RegisteredAt(r, name) = {} /\ name \notin DOMAIN r.inst
                    /\ RegisteredAt(r, DescriptorName(GroupOf(name)[ans])) = {}
                    /\ ~r.dirs[r.target].present

(* C18 amended: such an install returns failure with neither the           *)
(* dependency nor the parent registered, it does not start the install of  *)
(* the dependency when the dependency can be cloned, and the clone of the  *)
(* parent is removed unless the rmtree itself failed.                       *)
C18_SystemOnlyDependencyAborts ==
    installed[Main].running =>
        \A name \in Requests(catalog), force \in BOOLEAN,
           faults \in FaultSets(InstallFaults(catalog)), ans \in Answers :
            LET r == install(St(Reg(Main), disk, dirs), name, force, FALSE,
                             [faults |-> faults, ans |-> ans])
            IN  SystemOnlyChosen(name, ans, r) =>
                    /\ ~r.ret /\ ~Stopped(r)
                    /\ RegisteredAt(r, name) = {} /\ name \notin DOMAIN r.inst
                    /\ RegisteredAt(r, DescriptorName(GroupOf(name)[ans])) = {}
                    /\ DescriptorName(GroupOf(name)[ans]) \notin DOMAIN r.inst
                    /\ DOMAIN load_installed(r.disk)
                          \cap {name, DescriptorName(GroupOf(name)[ans])} = {}
                    /\ RepoOf(GroupOf(name)[ans][1]) \notin faults
                          => ~Has(r.log, "install_dependency")
                    /\ ~r.dirs[r.target].present \/ r.cleanup_failed

C18_Witness ==
    /\ ~system /\ InstallReturned /\ ~last.ret /\ last.target = "app2" /\ last.cloned
    /\ "check_system_only" \in last.events /\ "install_dependency" \notin last.events
    /\ ~dirs["app2"].present /\ DOMAIN Reg(Main) \cap {"app2", "sys"} = {}

FirstManifest(r) ==
    IF Trees[r].gitpm_json.kind # "absent" THEN Trees[r].gitpm_json
    ELSE Trees[r].dot_gitpm_json
\* a repository without a manifest file, or with one without dependencies
NoConstraints(r) ==
    \/ FirstManifest(r).kind = "absent"
    \/ FirstManifest(r).kind = "valid" /\ "dependencies" \notin FirstManifest(r).json.keys
\* the branch the catalog declares for the entry displayed as n
DeclaredBranch(n) ==
    LET i == CHOOSE i \in 1..Len(catalog) :
                 n = IF catalog[i].name # None THEN catalog[i].name
                     ELSE parse_repo_url(catalog[i].url)[3]
    IN  catalog[i].branch

(* C20: an install whose clone has no manifest file, or a manifest without *)
(* a dependencies section, returns success without the system-package      *)
(* installer and without a nested install, and registers the package under *)
(* its install name with the branch the catalog declares (none when the    *)
(* catalog declares none), in memory and in the registry file.              *)
C20_NoManifestInstalls ==
    (InstallReturned /\ last.cloned /\ NoConstraints(last.repo)) =>
        /\ last.ret
        /\ ~last.installer /\ last.depth = 1
        /\ last.events \cap {"install_dependencies", "install_dependency",
                              "check_system_only"} = {}
        /\ last.registered = << last.target >>
        /\ last.target \in DOMAIN Reg(last.p)
        /\ Reg(last.p)[last.target].name = last.target
        /\ Reg(last.p)[last.target].branch = DeclaredBranch(last.target)
        /\ last.target \in DOMAIN load_installed(disk)
        /\ load_installed(disk)[last.target].branch = DeclaredBranch(last.target)

C20_Witness ==
    /\ InstallReturned /\ last.cloned /\ last.ret
    /\ FirstManifest(last.repo).kind = "absent"
    /\ DeclaredBranch(last.target) = "main"
    /\ Reg(last.p)[last.target].branch = "main"

(* C21: an install whose setup hook exits non-zero or cannot be run still  *)
(* returns success: the clone is kept and the record is written in memory  *)
(* and in the registry file.                                                *)
C21_SetupFailureTolerated ==
    (InstallReturned /\ {"run_setup_script", "script_failed"} \subseteq last.events) =>
        /\ last.ret
        /\ dirs[last.target].present /\ dirs[last.target].repo = last.repo
        /\ last.target \in DOMAIN Reg(last.p)
        /\ Reg(last.p)[last.target].path = last.target
        /\ \E k \in 1..Len(last.registered) : last.registered[k] = last.target
        /\ load_installed(disk) = Reg(last.p)

C21_Witness ==
    /\ InstallReturned /\ last.ret
    /\ {"run_setup_script", "script_failed"} \subseteq last.events
    /\ Reg(last.p)[last.target].setup_script # NoPath

(* C22: a command in which an external process exceeded its timeout        *)
(* returns; it does not end by an exception that nothing catches.           *)
C22_TimeoutsHandled ==
    (last.op # "none" /\ "TimeoutExpired" \in last.events) => last.returned

(* C23 as stated: when a command ends, by returning or by an exception,    *)
(* no temporary directory it made for a compatibility check or for the     *)
(* look into a dependency exists.                                           *)
C23_NoTemporaryLeft ==
    (last.op # "none" /\ "mkdtemp" \in last.events) => last.temps = 0

(* C23 amended: when a command ends, by returning or by an exception, the  *)
(* temporary directories it made are gone unless the rmtree of one of them *)
(* failed, which is ignored.                                                *)
C23_TemporaryRemoved ==
    (last.op # "none" /\ "mkdtemp" \in last.events
        /\ "rmtree_temp_failed" \notin last.events) => last.temps = 0

C23_Witness ==
    /\ last.op = "install" /\ ~last.returned
    /\ {"mkdtemp", "TimeoutExpired"} \subseteq last.events
    /\ last.temps = 0

(* C24: update without a name calls the update of one package once for     *)
(* every name registered at the start, goes on after an update that fails, *)
(* and returns success exactly when every one of them did (and on an empty *)
(* registry).                                                               *)
C24_UpdateAll ==
    [][(last'.op = "update_all" /\ last'.returned) =>
          /\ Len(last'.calls) = Cardinality(DOMAIN Reg(Main))
          /\ {last'.calls[i].name : i \in 1..Len(last'.calls)} = DOMAIN Reg(Main)
          /\ last'.ret <=> \A i \in 1..Len(last'.calls) : last'.calls[i].ret
          /\ DOMAIN Reg(Main) = {} => last'.ret]_vars

C24_Witness ==
    /\ last.op = "update_all" /\ last.returned /\ ~last.ret
    /\ Len(last.calls) = 2 /\ ~last.calls[1].ret /\ last.calls[2].ret

\* a check hook that check_scripts selects exists in the working tree d: a
\* generic one or one named for the scope
HasCheckHook(d) ==
    \E f \in HooksAt(d.repo, d.commit) :
        /\ f[1] \in {"check", "check-updates"}
        /\ Len(f) = 2 \/ f[2] = (IF system THEN "-system" ELSE "-user")
\* an update that went past "if not updates_available" and "if check_only"
Applied(r) == Has(r.log, "checkout") \/ Has(r.log, "pull") \/ Has(r.log, "reset")

(* C25: an update finds an update available, with a check hook, when the   *)
(* hook exits with 1, not when it exits with 0, and by the comparison of   *)
(* the local commit with the remote one on any other exit code; without a  *)
(* check hook, by that comparison alone.                                    *)
C25_UpdateAvailability ==
    installed[Main].running =>
        \A name \in DOMAIN Reg(Main), faults \in SUBSET CheckFaults :
            dirs[Reg(Main)[name].path].present =>
                LET d == dirs[Reg(Main)[name].path]
                    r == update(St(Reg(Main), disk, dirs), name, FALSE,
                                [faults |-> faults, ans |-> 0])
                    differ == d.commit # head[d.repo]
                IN  /\ HasCheckHook(d) <=> Has(r.log, "run_check_script")
                    /\ Applied(r) <=>
                          IF HasCheckHook(d) /\ CheckExit(faults) = 1 THEN TRUE
                          ELSE IF HasCheckHook(d) /\ CheckExit(faults) = 0 THEN FALSE
                          ELSE differ
                    /\ ~Applied(r) => (r.ret /\ r.dirs[Reg(Main)[name].path].commit = d.commit)

C25_Witness ==
    /\ last.op = "update" /\ ~last.flag /\ last.ret
    /\ "run_check_script" \in last.events /\ "pull" \notin last.events
    /\ "reset" \notin last.events
    /\ dirs[last.target].present /\ dirs[last.target].commit # head[dirs[last.target].repo]
    /\ \E n \in DOMAIN Reg(Main) :
          /\ dirs[n].present /\ ~HasCheckHook(dirs[n])
          /\ dirs[n].commit # head[dirs[n].repo]

\* the field of a registry record that holds the path of the hook of a kind
ScriptField(rec, k) ==
    IF k = "setup" THEN rec.setup_script
    ELSE IF k = "remove" THEN rec.remove_script
    ELSE IF k = "update" THEN rec.update_script
    ELSE rec.check_script
\* the last command was an update of one package that pulled or reset the
\* working tree and returned success
UpdateApplied ==
    /\ last.op = "update" /\ ~last.flag /\ last.ret
    /\ {"pull", "reset"} \cap last.events # {}

(* C26: after an applied update returned success, every hook that discovery *)
(* finds in the updated working tree is the path stored for that kind in   *)
(* the package's record, and the registry file holds the registry of the   *)
(* process.                                                                 *)
C26_HookPathsRefreshed ==
    UpdateApplied =>
        /\ last.target \in DOMAIN Reg(last.p)
        /\ \A k \in ScriptKinds :
              LET f == check_scripts(dirs[last.target], system).scripts[k]
              IN  f # NoPath =>
                      ScriptField(Reg(last.p)[last.target], k) = ScriptPath(last.target, f)
        /\ load_installed(disk) = Reg(last.p)

\* a name update(name) refuses: not registered, or registered with a recorded
\* path that does not exist
NotUpdatable(name) ==
    \/ name \notin DOMAIN Reg(Main)
    \/ ~dirs[Reg(Main)[name].path].present

(* C27: update of a name that is not registered, or whose recorded path    *)
(* does not exist, returns failure, runs no git command and no hook, and   *)
(* leaves the registry, its file and the working trees as they are: an     *)
(* orphaned record stays.                                                  *)
C27_UpdateRefused ==
    installed[Main].running =>
        \A name \in Requests(catalog), check_only \in BOOLEAN,
           faults \in FaultSets(UpdateFaults(catalog)) :
            NotUpdatable(name) =>
                LET r == update(St(Reg(Main), disk, dirs), name, check_only,
                                [faults |-> faults, ans |-> 0])
                IN  /\ ~r.ret /\ ~Stopped(r)
                    /\ r.log = <<>>
                    /\ r.inst = Reg(Main) /\ r.disk = disk /\ r.dirs = dirs

\* an update was refused while the registry holds a record whose path is gone
C27_Witness ==
    /\ last.op = "update" /\ ~last.ret /\ last.returned /\ last.events = {}
    /\ installed[Main].reg = load_installed(disk)
    /\ \E name \in DOMAIN Reg(Main) : NotUpdatable(name)

----------------------------------------------------------------------------
(* The functions of gitpm that read no state of the package manager, each  *)
(* applied to every input of a bounded set: last holds the input, then the *)
(* input with the result.                                                  *)

\* a run in which nothing is installed and no command is given
NothingInstalled ==
    /\ catalog = CatTool
    /\ host = {}
    /\ head = [r \in Repos |-> 0]
    /\ dirs = [n \in DirNames |-> NoDir]
    /\ disk = NoFile
    /\ installed = [p \in Procs |-> IF p = Main
                                     THEN [running |-> TRUE, reg |-> load_installed(NoFile)]
                                     ELSE NotRunning]

\* what gitpm.json and .gitpm.json can be in a working tree: what they are in
\* the repositories, a directory, an unreadable file, a file holding null
MarkerFiles ==
    {Trees[r].gitpm_json : r \in Repos} \cup {Trees[r].dot_gitpm_json : r \in Repos}
        \cup {Absent, Invalid, Directory, Unreadable, Null}

\* load_gitpm_json on the working tree last.arg describes
LoadGitpmJson ==
    /\ last.op = "marker_files"
    /\ last' = [op |-> "load_gitpm_json", arg |-> last.arg,
                result |-> load_marker_files(last.arg[1], last.arg[2])]
    /\ UNCHANGED <<catalog, system, host, head, dirs, disk, installed>>

InitManifest ==
    /\ NothingInstalled
    /\ system = FALSE
    /\ last \in {[op |-> "marker_files", arg |-> <<m1, m2>>] : m1, m2 \in MarkerFiles}
NextManifest == LoadGitpmJson
SpecManifest == InitManifest /\ [][NextManifest]_vars

\* json_path.exists() and json_path.is_file()
IsFile(file) == file.kind \notin {"absent", "dir"}
\* the first of the two marker files that is a file, or Absent
FirstFile(files) ==
    IF IsFile(files[1]) THEN files[1] ELSE IF IsFile(files[2]) THEN files[2] ELSE Absent
\* (None, None): no manifest and no error
AbsentWithoutError(result) == result = << PyNone, PyNone >>
\* (None, error_message)
HardError(result) == result[1] = PyNone /\ result[2] # PyNone

\* C28 as stated: only the first marker file that exists is used, a file
\* that cannot be parsed is a hard error whatever the second file is, and the
\* result is (None, None) only when neither file exists.
C28_AbsentOnlyWhenNoFile ==
    last.op = "load_gitpm_json" =>
        /\ FirstFile(last.arg).kind = "valid" =>
                last.result = << FirstFile(last.arg).json, PyNone >>
        /\ FirstFile(last.arg).kind \in {"invalid", "unreadable"} => HardError(last.result)
        /\ AbsentWithoutError(last.result) <=> ~IsFile(last.arg[1]) /\ ~IsFile(last.arg[2])

(* C28: load_gitpm_json uses only the first of gitpm.json and .gitpm.json  *)
(* that is a file: when that file cannot be parsed or read the result is   *)
(* (None, error), whatever the second file is; when it parses, the result  *)
(* is its value; and the result is (None, None) exactly when neither is a  *)
(* file or the first that is one holds the JSON value null.                *)
C28_FirstMarkerFileOnly ==
    last.op = "load_gitpm_json" =>
        /\ FirstFile(last.arg).kind = "valid" =>
                last.result = << FirstFile(last.arg).json, PyNone >>
        /\ FirstFile(last.arg).kind \in {"invalid", "unreadable"} => HardError(last.result)
        /\ AbsentWithoutError(last.result) <=>
                \/ ~IsFile(last.arg[1]) /\ ~IsFile(last.arg[2])
                \/ FirstFile(last.arg).kind = "null"

\* gitpm.json cannot be parsed, .gitpm.json is a valid manifest, and the
\* result is the error
C28_Witness ==
    /\ last.op = "load_gitpm_json"
    /\ last.arg[1].kind = "invalid" /\ last.arg[2].kind = "valid"
    /\ HardError(last.result)

\* the number of hook files in the directories check_scripts is applied to
MaxFiles == 3

\* the words a hook file of a kind starts with, the main one first
HookWords(k) ==
    IF k = "setup" THEN << "setup", "install" >>
    ELSE IF k = "remove" THEN << "remove", "uninstall" >>
    ELSE IF k = "update" THEN << "update", "upgrade" >>
    ELSE << "check", "check-updates" >>
\* the file names of a kind, for both scopes and for none
HookFiles(k) ==
    {<<HookWords(k)[i], suffix>> : i \in 1..2, suffix \in {".sh", ".py"}}
        \cup {<<HookWords(k)[i], prefix, suffix>> :
                 i \in 1..2, prefix \in {"-user", "-system"}, suffix \in {".sh", ".py"}}
\* the directories that hold the files F: some of the shell scripts cannot be
\* chmod-ed, and some of those are executable already
DirsWith(F) ==
    UNION { {[files |-> F, locked |-> L, x |-> X] : X \in SUBSET L} :
            L \in SUBSET {f \in F : Suffix(f) = ".sh"} }
\* the directories: at most n hook files, all of one kind
HookDirs(n) ==
    UNION { DirsWith(F) :
            F \in UNION { {G \in SUBSET HookFiles(k) : Cardinality(G) <= n} :
                          k \in ScriptKinds } }

\* check_scripts on the directory last.arg describes
CheckScripts ==
    /\ last.op = "directory"
    /\ last' = [op |-> "check_scripts", arg |-> last.arg,
                result |-> check_scripts_in(last.arg.files, last.arg.x, last.arg.locked,
                                            system)]
    /\ UNCHANGED <<catalog, system, host, head, dirs, disk, installed>>

InitScripts ==
    /\ NothingInstalled
    /\ system \in BOOLEAN
    /\ last \in {[op |-> "directory", arg |-> d] : d \in HookDirs(MaxFiles)}
NextScripts == CheckScripts
SpecScripts == InitScripts /\ [][NextScripts]_vars

\* the file is named for a scope
Scoped(f) == Len(f) = 3
\* the place of a file in the order of the claim: scope-specific shell,
\* scope-specific interpreted, generic shell, generic interpreted
Tier(f) ==
    IF Scoped(f) THEN (IF Suffix(f) = ".sh" THEN 1 ELSE 2)
    ELSE (IF Suffix(f) = ".sh" THEN 3 ELSE 4)
\* the file is a candidate of kind k in the scope of the run: named for the
\* kind, and for this scope or for none
Candidate(f, k) ==
    /\ f[1] \in {HookWords(k)[1], HookWords(k)[2]}
    /\ Scoped(f) => f[2] = (IF system THEN "-system" ELSE "-user")
\* an interpreted script, or a shell script that is executable after the
\* attempt to chmod it
Eligible(d, f) == Suffix(f) = ".py" \/ f \notin d.locked \/ f \in d.x
\* the candidates of kind k that exist in d and are eligible
EligibleCandidates(d, k) == {f \in d.files : Candidate(f, k) /\ Eligible(d, f)}

(* C29: for each hook kind, check_scripts returns no hook when no candidate *)
(* of the kind exists and is eligible, and otherwise the existing eligible  *)
(* candidate that comes first in the order scope-specific shell, scope-     *)
(* specific interpreted, generic shell, generic interpreted (the main word  *)
(* before its alias within each): a scope-specific hook is preferred over a *)
(* generic one, and a hook named for the other scope is never selected.     *)
C29_FirstEligibleCandidate ==
    last.op = "check_scripts" =>
        \A k \in ScriptKinds :
            LET found == last.result[k]
                C == EligibleCandidates(last.arg, k)
            IN  IF C = {} THEN found = NoPath
                ELSE /\ found \in C
                     /\ \A g \in C :
                           /\ Tier(found) <= Tier(g)
                           /\ (Tier(g) = Tier(found) /\ g # found) =>
                                  found[1] = HookWords(k)[1]
                     /\ Scoped(found) => found[2] = (IF system THEN "-system" ELSE "-user")

\* a scope-specific interpreted hook was selected in a directory that also
\* holds an eligible generic shell hook and a hook named for the other scope
C29_Witness ==
    /\ last.op = "check_scripts"
    /\ \E k \in ScriptKinds :
          /\ last.result[k] # NoPath
          /\ Scoped(last.result[k]) /\ Suffix(last.result[k]) = ".py"
          /\ \E g \in EligibleCandidates(last.arg, k) : ~Scoped(g) /\ Suffix(g) = ".sh"
          /\ \E h \in last.arg.files : Scoped(h) /\ ~Candidate(h, k)

\* the length of the paths of the URLs parse_repo_url is applied to
MaxPath == 3
\* the URLs: every scheme of the model, hosts well-formed and not, paths of
\* up to m segments, with and without .git
Segments == {"acme", "httpie", "lib"}
Paths(m) == UNION {[1..n -> Segments] : n \in 0..m}
RawUrls(m) ==
    {[scheme |-> s, host |-> h, path |-> p, git |-> g] :
        s \in {"http", "https", "git@", "alice@"}, h \in {"example.com", "["},
        p \in Paths(m), g \in BOOLEAN}
    \cup {[scheme |-> "", host |-> "", path |-> p, git |-> g] : p \in Paths(m), g \in BOOLEAN}

\* parse_repo_url on the URL last.arg
ParseRepoUrl ==
    /\ last.op = "url"
    /\ last' = [op |-> "parse_repo_url", arg |-> last.arg, result |-> parse_repo_url(last.arg)]
    /\ UNCHANGED <<catalog, system, host, head, dirs, disk, installed>>

InitUrl ==
    /\ NothingInstalled
    /\ system = FALSE
    /\ last \in {[op |-> "url", arg |-> u] : u \in RawUrls(MaxPath)}
NextUrl == ParseRepoUrl
SpecUrl == InitUrl /\ [][NextUrl]_vars

\* the forms the claim names, for an owner and a repository
ShortForm(url) == url.scheme = "" /\ Len(url.path) = 2
HttpsForm(url) == url.scheme \in {"http", "https"} /\ Len(url.path) = 2
SshForm(url) == url.scheme \in {"git@", "alice@"} /\ Len(url.path) = 2
\* the canonical URL of each form
Canonical(url) ==
    IF ShortForm(url)
    THEN [scheme |-> "https", host |-> "github.com", path |-> url.path, git |-> TRUE]
    ELSE [url EXCEPT !.git = TRUE]

(* C30: parse_repo_url returns for every URL, and for the short form       *)
(* owner/repo, the HTTPS form and the SSH form user@host:owner/repo, with  *)
(* or without .git, it returns the owner and the repository of the URL and *)
(* the canonical URL of the form, ending in .git.                          *)
C30_SameIdentity ==
    last.op = "parse_repo_url" =>
        /\ Len(last.result) = 3
        /\ (ShortForm(last.arg) \/ HttpsForm(last.arg) \/ SshForm(last.arg)) =>
                last.result = << Canonical(last.arg), last.arg.path[1], last.arg.path[2] >>

----------------------------------------------------------------------------
(* load_config: one line of a repos*.conf file.  A line is its fields      *)
(* between the commas; a field is its text and whether white space         *)
(* surrounds the text.                                                     *)

\* the number of fields of the lines load_config is applied to
MaxFields == 3

Field(text, pad) == [text |-> text, pad |-> pad]
\* the texts of the fields: empty, two words, a word after the comment sign
FieldTexts == {"", "a", "b", "#a"}
Lines(n) ==
    UNION {[1..k -> {Field(t, p) : t \in FieldTexts, p \in BOOLEAN}] : k \in 1..n}

\* line.strip().startswith('#')
IsComment(line) == line[1].text = "#a"
\* line.strip() is empty
IsBlank(line) == Len(line) = 1 /\ line[1].text = ""

\* a loop body that appends an entry also for a line whose URL is empty
parse_line_keeping(line) ==
    IF IsBlank(line) \/ IsComment(line) THEN <<>>
    ELSE << Entry(line[1].text,
                  IF Len(line) > 1 THEN line[2].text ELSE None,
                  IF Len(line) > 2 THEN line[3].text ELSE None) >>

\* the body of the loop of load_config over the lines of a file: the entries
\* the line adds to repos.  parts are the stripped fields; an empty branch
\* or name becomes None (the empty text of the model).
parse_line(line) ==
    IF IsBlank(line) \/ IsComment(line) THEN <<>>
    ELSE IF line[1].text = "" THEN <<>>
    ELSE << Entry(line[1].text,
                  IF Len(line) > 1 THEN line[2].text ELSE None,
                  IF Len(line) > 2 THEN line[3].text ELSE None) >>

\* load_config on the line last.arg
LoadConfig ==
    /\ last.op = "line"
    /\ last' = [op |-> "load_config", arg |-> last.arg, result |-> parse_line(last.arg)]
    /\ UNCHANGED <<catalog, system, host, head, dirs, disk, installed>>

InitConfig ==
    /\ NothingInstalled
    /\ system = FALSE
    /\ last \in {[op |-> "line", arg |-> l] : l \in Lines(MaxFields)}
NextConfig == LoadConfig
SpecConfig == InitConfig /\ [][NextConfig]_vars

\* url[,branch[,name]] written from an entry: the fields up to the last one
\* that is present, without white space
Serialize(e) ==
    IF e.name # None THEN << Field(e.url, FALSE), Field(e.branch, FALSE), Field(e.name, FALSE) >>
    ELSE IF e.branch # None THEN << Field(e.url, FALSE), Field(e.branch, FALSE) >>
    ELSE << Field(e.url, FALSE) >>
\* a line url[,branch[,name]] with a URL: not blank, not a comment, at most
\* three fields, the first one not empty
ValidLine(line) ==
    /\ ~IsBlank(line) /\ ~IsComment(line)
    /\ Len(line) <= 3 /\ line[1].text # ""
\* the line has no white space around its fields and no empty last field
Canonical_line(line) ==
    /\ \A i \in 1..Len(line) : ~line[i].pad
    /\ Len(line) > 1 => line[Len(line)].text # ""
\* the entry holds the texts of the fields of the line, None for a field that
\* is missing or empty
FieldsOf(line, e) ==
    /\ e.url = line[1].text
    /\ e.branch = (IF Len(line) > 1 THEN line[2].text ELSE None)
    /\ e.name = (IF Len(line) > 2 THEN line[3].text ELSE None)

\* C31 as stated: every valid line yields the entry of its fields, and
\* writing the entry out gives the line again; a line with an empty URL
\* yields no entry.
C31_RoundTrip ==
    last.op = "load_config" =>
        /\ ValidLine(last.arg) =>
              /\ Len(last.result) = 1
              /\ FieldsOf(last.arg, last.result[1])
              /\ Serialize(last.result[1]) = last.arg
        /\ last.arg[1].text = "" => last.result = <<>>

(* C31: every valid catalog line yields one entry that holds the stripped  *)
(* url, branch and name fields of the line, absent for a field that is     *)
(* missing or empty (a line with only a URL has neither branch nor name);  *)
(* the entry written out parses to the same entry, and is the line itself  *)
(* exactly when the line has no white space around its fields and no       *)
(* empty last field; a line with an empty URL field yields no entry.       *)
C31_RoundTripOfEntries ==
    last.op = "load_config" =>
        /\ ValidLine(last.arg) =>
              /\ Len(last.result) = 1
              /\ FieldsOf(last.arg, last.result[1])
              /\ parse_line(Serialize(last.result[1])) = last.result
              /\ Serialize(last.result[1]) = last.arg <=> Canonical_line(last.arg)
        /\ last.arg[1].text = "" => last.result = <<>>

\* a line with a URL, an empty branch and a name was parsed and written out
\* as it was
C31_Witness ==
    /\ last.op = "load_config" /\ Len(last.arg) = 3 /\ Len(last.result) = 1
    /\ last.result[1].branch = None /\ last.result[1].name # None
    /\ Serialize(last.result[1]) = last.arg

\* ---------------------------------------------------------------------
\* install: the depth of the installs of peer dependencies

\* the install that the loop over the missing peer dependencies makes for the
\* name n, inside an install of the process Main
nested_install(n, faults, ans) ==
    install(Enter(St(Reg(Main), disk, dirs)), n, FALSE, nested_skip_dependency_check,
            [faults |-> faults, ans |-> ans])

(* C32: an install made for a peer dependency resolves no dependencies and  *)
(* starts no install of its own, whatever the catalog name, the failures   *)
(* and the answers; so an install command holds a second install on its    *)
(* stack exactly when it reached the install of a dependency, never a      *)
(* third, and every install ends (it returns or raises).                   *)
C32_NestedInstallIsFlat ==
    /\ last.op = "install"
           => /\ last.depth \in {1, 2}
              /\ last.depth = 2 <=> "install_dependency" \in last.events
    /\ installed[Main].running
           => \A n \in NamesOf(catalog), faults \in FaultSets(InstallFaults(catalog)),
                 ans \in AnswersOf(catalog) :
                  LET r == nested_install(n, faults, ans)
                  IN  /\ r.deepest = 2 /\ r.depth = 1
                      /\ ~Has(r.log, "check_dependencies")
                      /\ ~Has(r.log, "install_dependency")
                      /\ ~r.checked

C32_Witness ==
    /\ last.op = "install" /\ last.repo = "app" /\ last.depth = 2 /\ last.ret
    /\ Len(last.registered) = 2
    /\ \E n \in NamesOf(catalog) : nested_install(n, {}, 1).ret

\* ---------------------------------------------------------------------
\* install: the registry after an install that failed

(* C33: an install that returns failure leaves the registry as it was, in  *)
(* memory and in the registry file: no record is added and none removed.   *)
C33_FailedInstallKeepsRegistry ==
    [][(last'.op = "install" /\ last'.returned /\ ~last'.ret)
          => (installed' = installed /\ load_installed(disk') = load_installed(disk))]_vars

\* ---------------------------------------------------------------------
\* install: the reinstall of a registered package

\* the catalog entry that install(name) selects is registered under its name
SelectsRegistered(name, ans) ==
    LET selected == prompt_selection(find_repos_by_name(catalog, name), ans)
    IN  Len(selected) > 0 /\ selected[1].name \in DOMAIN Reg(Main)

\* the install of the process Main in the current state
install_now(name, force, faults, ans) ==
    install(St(Reg(Main), disk, dirs), name, force, FALSE, [faults |-> faults, ans |-> ans])

\* the reinstall question declined: failure, and nothing changed
DeclineKeeps(r) ==
    ~r.ret /\ r.inst = Reg(Main) /\ r.disk = disk /\ r.dirs = dirs /\ r.log = <<>>

\* the reinstall question accepted: remove is called and runs no hook
AcceptRemovesSilently(r) ==
    Has(r.log, "remove") /\ ~Has(r.log, "run_remove_script")

\* git clone is run only after a removal that succeeded
CloneOnlyAfterRemoval(r) ==
    Has(r.log, "clone") => ~Has(r.log, "rmtree_failed")

(* C34: when install finds the selected name registered, declining the     *)
(* reinstall question returns failure with the registry and the install    *)
(* root unchanged; accepting it removes the installation without running a *)
(* remove hook, and git clone is run only if that removal succeeded.       *)
C34_Reinstall ==
    installed[Main].running
        => \A name \in NamesOf(catalog), force \in BOOLEAN,
              faults \in FaultSets(InstallFaults(catalog)), ans \in AnswersOf(catalog) :
               SelectsRegistered(name, ans)
                   => LET r == install_now(name, force, faults, ans)
                      IN  IF ans = 0 THEN DeclineKeeps(r)
                          ELSE AcceptRemovesSilently(r) /\ CloneOnlyAfterRemoval(r)

\* ---------------------------------------------------------------------
\* install: the record of an installed peer dependency

\* the descriptor install picks for the missing dependency info: the
\* alternative selected at the prompt, or the dependency itself
ChosenDependency(info, ans) ==
    IF Len(info.alternatives) > 0
    THEN prompt_selection(AlternativeOptions(info.alternatives, 1), ans)
    ELSE << [name |-> info.name, url |-> info.url, branch |-> info.branch] >>

\* the registry reg holds dep: a record under its name, of its repository and
\* branch
HoldsDescriptor(reg, dep) ==
    /\ dep.name \in DOMAIN reg
    /\ parse_repo_url(reg[dep.name].url)[1] = parse_repo_url(dep.url)[1]
    /\ reg[dep.name].branch = dep.branch

(* C35: after an install that installed its missing peer dependencies and  *)
(* returned success, the registry holds, for each of them, a record under  *)
(* the name of the chosen descriptor whose url and branch are those of the *)
(* descriptor.                                                              *)
C35_DependencyIsDescriptor ==
    installed[Main].running
        => \A name \in NamesOf(catalog), faults \in FaultSets(InstallFaults(catalog)),
              ans \in AnswersOf(catalog) :
               LET r == install_now(name, FALSE, faults, ans)
               IN  (~Stopped(r) /\ r.ret /\ Has(r.log, "install_dependency"))
                       => \A i \in 1..Len(r.first.gitpm_dep_info) :
                              LET chosen == ChosenDependency(r.first.gitpm_dep_info[i], ans)
                              IN  Len(chosen) = 1 /\ HoldsDescriptor(r.inst, chosen[1])

\* ---------------------------------------------------------------------
\* install: the name a package is registered under

\* the spellings under which find_repos_by_name finds an entry of cat
Spellings(cat) ==
    {n \in DirNames \cup {"TOOL", "Tool"} : \E m \in NamesOf(cat) : Lower(n) = Lower(m)}

\* update(n) and remove(n) answer "not installed" on the registry reg
NotInstalled(reg, n) == n \notin DOMAIN reg

\* a second install(n) finds the installation in the registry reg
DetectsInstallation(reg, n, ans) ==
    LET selected == prompt_selection(find_repos_by_name(catalog, n), ans)
    IN  Len(selected) > 0 /\ selected[1].name \in DOMAIN reg

(* C36: after install(n) returns success, for every spelling n that the    *)
(* case-insensitive lookup matches to a catalog entry, n is a key of the   *)
(* registry: update(n) and remove(n) do not answer "not installed", and a  *)
(* second install(n) detects the installation.                             *)
C36_FindableUnderSameName ==
    installed[Main].running
        => \A n \in Spellings(catalog), force \in BOOLEAN,
              faults \in FaultSets(InstallFaults(catalog)), ans \in AnswersOf(catalog) :
               LET r == install_now(n, force, faults, ans)
               IN  (~Stopped(r) /\ r.ret)
                       => /\ ~NotInstalled(r.inst, n)
                          /\ DetectsInstallation(r.inst, n, ans)

\* ---------------------------------------------------------------------
\* update: the working tree after an update

\* one process installs and updates the packages of CatCheck; commits are
\* pushed, and the user edits files of the working trees or reverts them
NextTree ==
    \/ \E name \in NamesOf(catalog) : Install(Main, name, FALSE, {}, 1)
    \/ \E name \in NamesOf(catalog), check_only \in BOOLEAN,
          faults \in FaultSets(UpdateFaults(catalog) \cup CheckFaults) :
            Update(Main, name, check_only, faults)
    \/ \E r \in ReposOf(catalog) : Push(r)
    \/ \E n \in NamesOf(catalog) : Edit(n)
    \/ \E n \in NamesOf(catalog) : Revert(n)

SpecTree == InitHooks /\ [][NextTree]_vars

\* the working tree d has no edited or untracked file and is at the head of
\* its remote
AtRemote(d) == ~d.dirty /\ d.commit = head[d.repo]

ReportOfClone(i, sudo) ==
    LET name == IF catalog[i].name # None THEN catalog[i].name
                ELSE parse_repo_url(catalog[i].url)[3]
        r == RepoOf(catalog[i].url)
    IN  check_dependencies(Reg(Main), [dirs EXCEPT ![name] = CloneOf(r, head[r])],
                           host, system, sudo, name)

\* the report r is consistent: a scope error comes in user scope only, with
\* satisfied false and nothing reported missing; without an error satisfied
\* says that nothing is missing
ConsistentReport(r) ==
    /\ r.json_error \in ScopeErrors
           => /\ ~system /\ ~r.sat
              /\ r.missing_system = <<>> /\ r.missing_gitpm = <<>>
    /\ r.json_error = None
           => (r.sat <=> (r.missing_system = <<>> /\ r.missing_gitpm = <<>>))

(* C38: a report of check_dependencies that carries a scope error has      *)
(* satisfied = false and empty lists of missing system packages and of     *)
(* missing peer dependencies, and is never returned in system scope; a     *)
(* report without error has satisfied = true exactly when both lists are   *)
(* empty.                                                                   *)
C38_ConsistentReport ==
    \A i \in 1..Len(catalog), sudo \in BOOLEAN : ConsistentReport(ReportOfClone(i, sudo))

C38_Witness ==
    /\ last.op = "install" /\ last.fatal /\ ~last.ret /\ ~system
    /\ \E i \in 1..Len(catalog) : ReportOfClone(i, TRUE).json_error \in ScopeErrors

\* ---------------------------------------------------------------------
\* check_system_dependencies: the packages reported missing for the probes
\* of check_commands

MaxProbes == 2

\* the commands a manifest probes for, and the probes made of them: one
\* command, or a group of alternative commands
ProbeCommands == {"a", "b"}
Probes == {One("a"), One("b"), Alts(<< "a", "b" >>), Alts(<< "b", "a" >>)}
ProbeLists(n) == UNION {[1..k -> Probes] : k \in 1..n}

\* the tables of the distribution: no command mapped, a mapped to one
\* package or to a list of packages, b mapped, both mapped
DistroTables ==
    { <<>>,
      << <<"a", One("pa")>> >>,
      << <<"a", Alts(<< "pa1", "pa2" >>)>> >>,
      << <<"b", One("pb")>> >>,
      << <<"b", Alts(<< "pb1", "pb2" >>)>>, <<"a", One("pa")>> >> }

\* check_system_dependencies on the section last.arg.dependencies, on a host
\* that has the commands last.arg.host
CheckSystemDependencies ==
    /\ last.op = "dependencies"
    /\ last' = [op |-> "check_system_dependencies", arg |-> last.arg,
                result |-> check_system_dependencies(last.arg.host, last.arg.dependencies)]
    /\ UNCHANGED <<catalog, system, host, head, dirs, disk, installed>>

InitProbes ==
    /\ NothingInstalled
    /\ system = FALSE
    /\ last \in {[op |-> "dependencies",
                  arg |-> [host |-> h,
                           dependencies |-> [method |-> "inst", distro_method |-> None,
                                             check_commands |-> c, pkgs |-> t]]] :
                    h \in SUBSET ProbeCommands, c \in ProbeLists(MaxProbes), t \in DistroTables}
NextProbes == CheckSystemDependencies
SpecProbes == InitProbes /\ [][NextProbes]_vars

\* no command of the probe is on the host h
NonePresent(h, probe) == \A j \in 1..Len(probe.v) : probe.v[j] \notin h

\* the package that stands for the probe in the table: the mapping of its
\* first command, the first element of a list, the command itself when the
\* table does not map it
Contributed(table, probe) ==
    LET rows == {i \in 1..Len(table) : table[i][1] = probe.v[1]}
    IN  IF rows = {} THEN probe.v[1]
        ELSE LET row == table[CHOOSE i \in rows : TRUE] IN row[2].v[1]

\* the indices of the probes that contribute, in the order of check_commands
Unsatisfied(h, probes) ==
    SelectSeq([i \in 1..Len(probes) |-> i], LAMBDA i : NonePresent(h, probes[i]))

(* C39: with check_commands, the list of missing packages has one element  *)
(* for each probe none of whose commands is on the host, in the order of   *)
(* the probes, and none for the others; the element is the table's mapping *)
(* of the probe's first command, its first element when the mapping is a   *)
(* list, or the command itself when the table does not map it.             *)
C39_OnePackagePerFailedProbe ==
    last.op = "check_system_dependencies"
        => LET h == last.arg.host
               probes == last.arg.dependencies.check_commands
               table == last.arg.dependencies.pkgs
               failed == Unsatisfied(h, probes)
               missing == last.result[2]
           IN  /\ Len(missing) = Len(failed)
               /\ \A k \in 1..Len(failed) : missing[k] = Contributed(table, probes[failed[k]])
               /\ last.result[1] <=> failed = <<>>

C39_Witness ==
    /\ last.op = "check_system_dependencies"
    /\ last.arg.host = {"b"}
    /\ last.arg.dependencies.check_commands = << Alts(<< "a", "b" >>), One("a") >>
    /\ last.result[2] = << "pa1" >>

\* ---------------------------------------------------------------------
\* install: the checkout of the declared branch

\* one process installs and removes the package of CatBranch, whose catalog
\* line declares a branch; the checkout of the branch fails in every way
NextBranch ==
    \/ \E name \in Requests(catalog), force \in BOOLEAN, checkout \in SUBSET CheckoutFaults,
          faults \in FaultSets(InstallFaults(catalog)), ans \in {0, 1} :
            Install(Main, name, force, checkout \cup faults, ans)
    \/ \E name \in Requests(catalog), faults \in FaultSets(RemoveFaults(catalog)) :
            Remove(Main, name, faults)
    \/ \E n \in NamesOf(catalog) : DeletePath(n)

InitBranch == Init /\ catalog = CatBranch

SpecBranch == InitBranch /\ [][NextBranch]_vars

\* the checkout commands of a log, in the order they were run
CheckoutsOf(log) ==
    SelectSeq(log, LAMBDA e : e \in {"checkout_local", "checkout_track",
                                     "checkout_direct", "checkout_create"})

\* the checkout commands to run: the plain checkout when the branch exists
\* locally, else the tracking checkout when it exists remotely, else the
\* direct checkout and, when that fails, the creation of the branch from
\* the remote; none when a call raised before them
StrategyOrder(checkout) ==
    IF "checkout_raises" \in checkout THEN <<>>
    ELSE IF "no_local" \notin checkout THEN << "checkout_local" >>
    ELSE IF "no_remote" \notin checkout THEN << "checkout_track" >>
    ELSE IF {"direct_fails", "checkout_fails"} \cap checkout = {} THEN << "checkout_direct" >>
    ELSE << "checkout_direct", "checkout_create" >>

\* the checkout of the branch failed in the install whose log is given
CheckoutFailed(log) == Has(log, "checkout_warning")

(* C40: whatever goes wrong in the checkout of the declared branch after   *)
(* the clone, install ends as it ends when nothing goes wrong there: same  *)
(* result, registry, registry file and install root, and no exception; the *)
(* checkout commands run are the plain checkout when the branch exists     *)
(* locally, else the tracking checkout when it exists remotely, else the   *)
(* direct checkout followed, when it fails, by the creation of the branch  *)
(* from the remote.                                                         *)
C40_BranchFailureTolerated ==
    installed[Main].running
        => \A name \in NamesOf(catalog), force \in BOOLEAN, checkout \in SUBSET CheckoutFaults,
              faults \in FaultSets(InstallFaults(catalog)), ans \in {0, 1} :
               LET r == install_now(name, force, checkout \cup faults, ans)
                   plain == install_now(name, force, faults, ans)
               IN  /\ Stopped(r) = Stopped(plain) /\ r.ret = plain.ret
                   /\ r.inst = plain.inst /\ r.disk = plain.disk /\ r.dirs = plain.dirs
                   /\ Has(r.log, "fetch_branches")
                         => /\ CheckoutsOf(r.log) = StrategyOrder(checkout)
                            /\ Has(r.log, "check_dependencies")
                            /\ r.dirs[name].present

C40_Witness ==
    /\ last.op = "install" /\ last.ret /\ last.target = "lib"
    /\ {"checkout_direct", "checkout_create", "checkout_warning", "check_dependencies",
        "save_installed"} \subseteq last.events
    /\ dirs["lib"].present /\ "lib" \in DOMAIN Reg(Main)

====
